---- MODULE Spec2Model ----
(***************************************************************************)
(* Snapshot distribution engine of zclassic (snapshot.h / snapshot.cpp):   *)
(* the serving-side CSnapshotRateLimiter, the fetching-side                *)
(* CSnapshotDownloadCoordinator with its CSnapshotDownloadState, and the   *)
(* on-disk CSnapshotStore with assembly and verification.                  *)
(*                                                                         *)
(* Every public method of the limiter and of the coordinator takes the     *)
(* object's mutex on entry (LOCK(cs_rateLimiter), LOCK(cs_coordinator)),   *)
(* so a call is one atomic action and concurrent calls are interleavings   *)
(* of such actions.                                                        *)
(***************************************************************************)
EXTENDS Integers, Sequences, FiniteSets, TLC

(***************************************************************************)
(* Bounds of the model.                                                    *)
(***************************************************************************)
\* peers (CNetAddr) that send requests to the limiter
Peers == {1, 2}
\* chunk numbers they ask the limiter for
Chunks == {0}
\* GetTime() when the limiter is constructed (Unix seconds, far above 600)
StartTime == 1000
\* calls arrive at StartTime + j and StartTime + 60 + j, j in 0..Jitter
Jitter == 1
\* the limits an operator sets through SetLimits at startup
TightChunksPerMinute == 1
TightConcurrent == 2
TightMinSeconds == 1
\* the requests of the flooding peer (150 requests within one minute)
FloodRequests == 150
\* peers (NodeId) the coordinator downloads from
Nodes == {1, 2}
\* nTotalChunks of the download state: chunks 0..TotalChunks-1
TotalChunks == 2
\* RecordRequest and RecordFailure are called while the peer's counters are below
MaxChunksRequested == 2
MaxChunksFailed == 1
\* where one peer fails again and again, its failures are recorded while below
MaxBackoffFailures == 5
\* chunks of the snapshot manifest, and the size of each in bytes
StoreChunks == 2
ChunkSize == 2

(***************************************************************************)
(* Program constants of CSnapshotRateLimiter.                              *)
(***************************************************************************)
DefaultMaxChunksPerPeerPerMinute == 30
DefaultMaxConcurrentTransfers == 25
DefaultMinSecondsBetweenRequests == 2
nDuplicateChunkWindowSec == 300
nBanThreshold == 100
nBanDurationSec == 300
\* "only keep last 60 seconds"
RequestWindowSec == 60
\* "Remove entries for peers we haven't seen in 10 minutes"
PeerExpirySec == 600

(***************************************************************************)
(* Program constants of CSnapshotDownloadCoordinator.                      *)
(***************************************************************************)
MAX_CONCURRENT_PEER_REQUESTS == 12
MIN_SECONDS_BETWEEN_REQUESTS == 3
REQUEST_TIMEOUT_SEC == 60
\* SelectPeerForNextChunk returns -1 when it selects no peer
NoPeer == -1

VARIABLES
    now,                          \* GetTime()
    mapPeerRequests,              \* CNetAddr -> PeerRequestInfo (entries that exist)
    nActiveTransfers,
    nMaxChunksPerPeerPerMinute,
    nMaxConcurrentTransfers,
    nMinSecondsBetweenRequests,
    nSent,                        \* requests the flooding peer has sent so far
    admitted,                     \* history: per peer, the requests AllowRequest admitted
    lastCall,                     \* history: the last limiter call and what it returned
    servedAt,                     \* history: per (peer, chunk), the time of its last RecordServed
    mapPeerStates,                \* NodeId -> PeerDownloadState (entries that exist)
    mapChunkToNode,               \* the in-flight map: its (chunk, node) entries
    mapChunksReceived,            \* the chunk numbers mapped to true
    coCall,                       \* history: the last coordinator call and what it returned
    requestedAt,                  \* history: per in-flight chunk, the time of its RecordRequest
    mapChunkRequests,             \* CSnapshotDownloadState: chunk number -> request time
    marks,                        \* history: the chunk numbers MarkChunkReceived was called with, in order
    disk,                         \* the snapshot directory and the target data directory
    stPre,                        \* history: disk as it was before the last store call
    stCall,                       \* history: the last store call and what it returned
    psnapshotstore,               \* the global store pointer and the manifest of the store
    manifestDat,                  \* the contents of manifest.dat in the snapshot directory
    mfCall,                       \* history: the last InitSnapshotStore or CanServeSnapshots call
    saving,                       \* the thread inside SaveChunk: where it is and what it writes
    accepted                      \* history: per chunk, the bytes of the last successful SaveChunk

rlVars == <<mapPeerRequests, nActiveTransfers, nMaxChunksPerPeerPerMinute,
            nMaxConcurrentTransfers, nMinSecondsBetweenRequests, nSent, admitted,
            lastCall, servedAt>>

coVars == <<mapPeerStates, mapChunkToNode, mapChunksReceived, coCall, requestedAt>>

stVars == <<disk, stPre, stCall>>

mfVars == <<psnapshotstore, manifestDat, mfCall>>

svVars == <<saving, accepted>>

dsVars == <<mapChunkRequests, marks>>

vars == <<now, rlVars, coVars, stVars, mfVars, svVars, dsVars>>

(***************************************************************************)
(* CSnapshotRateLimiter (serving side).                                    *)
(* nTotalBytesServed and nLastResetTime are statistics that Cleanup        *)
(* reports and resets; no decision reads them and they are left out.       *)
(* GetTime() is taken to be non-decreasing.                                *)
(***************************************************************************)
EmptyMap == [c \in {} |-> 0]

\* PeerRequestInfo(): the entry std::map::operator[] creates
NewPeerRequestInfo ==
    [requestTimes |-> <<>>, servedChunks |-> EmptyMap, nLastRequestTime |-> 0,
     nTotalRequests |-> 0, bIsBanned |-> FALSE, nBanUntil |-> 0]

\* mapPeerRequests[addr] as the code reads it (the entry, or the one operator[] creates)
InfoOf(addr) ==
    IF addr \in DOMAIN mapPeerRequests THEN mapPeerRequests[addr] ELSE NewPeerRequestInfo

\* mapPeerRequests after the entry of addr was created or written
WithEntry(addr, info) ==
    [a \in DOMAIN mapPeerRequests \cup {addr} |->
        IF a = addr THEN info ELSE mapPeerRequests[a]]

\* if (info.bIsBanned) { if (nNow < info.nBanUntil) return false; ...
IsBanActive(info, nNow) == info.bIsBanned /\ nNow < info.nBanUntil

\* an unban that leaves the request window as it is
LiftExpiredBanKeepsWindow(info, nNow) ==
    IF info.bIsBanned /\ ~(nNow < info.nBanUntil)
    THEN [info EXCEPT !.bIsBanned = FALSE, !.nBanUntil = 0]
    ELSE info

\* ... // Unban
LiftExpiredBan(info, nNow) ==
    IF info.bIsBanned /\ ~(nNow < info.nBanUntil)
    THEN [info EXCEPT !.bIsBanned = FALSE, !.nBanUntil = 0, !.requestTimes = <<>>]
    ELSE info

\* a limit > as a bug would write the capacity check
AtCapacityOffByOne(active) == active > nMaxConcurrentTransfers

\* if (nActiveTransfers >= nMaxConcurrentTransfers)
AtCapacity(active) == active >= nMaxConcurrentTransfers

\* the interval check one second short
TooFastOffByOne(info, nNow) ==
    /\ info.nLastRequestTime > 0
    /\ nNow - info.nLastRequestTime < nMinSecondsBetweenRequests - 1

\* if (info.nLastRequestTime > 0) { if (nNow - nLastRequestTime < nMinSecondsBetweenRequests)
TooFast(info, nNow) ==
    /\ info.nLastRequestTime > 0
    /\ nNow - info.nLastRequestTime < nMinSecondsBetweenRequests

\* a duplicate check that still rejects when the window has just ended
AlreadyServedInclusive(info, nChunk, nNow) ==
    /\ nChunk \in DOMAIN info.servedChunks
    /\ nNow - info.servedChunks[nChunk] <= nDuplicateChunkWindowSec

\* servedChunks.find(nChunk) ... if (timeSinceServed < nDuplicateChunkWindowSec)
AlreadyServed(info, nChunk, nNow) ==
    /\ nChunk \in DOMAIN info.servedChunks
    /\ nNow - info.servedChunks[nChunk] < nDuplicateChunkWindowSec

\* while (!requestTimes.empty() && (nNow - requestTimes.front()) > 60) pop_front();
RECURSIVE PruneWindow(_, _)
PruneWindow(times, nNow) ==
    IF times # <<>> /\ (nNow - Head(times)) > RequestWindowSec
    THEN PruneWindow(Tail(times), nNow)
    ELSE times

\* the per-minute check written with > instead of >=
OverRateLimitOffByOne(times) == Len(times) > nMaxChunksPerPeerPerMinute

\* a per-minute check that only stops a peer at the ban threshold
OverRateLimitAtBanThreshold(times) == Len(times) >= nBanThreshold

\* if (info.requestTimes.size() >= nMaxChunksPerPeerPerMinute)
OverRateLimit(times) == Len(times) >= nMaxChunksPerPeerPerMinute

\* if (info.requestTimes.size() >= nBanThreshold)
OverBanThreshold(times) == Len(times) >= nBanThreshold

\* an AllowRequest that looks at the capacity of the server before the ban
AllowRequestResultCapacityFirst(info0, nChunk, nNow) ==
    LET unbanned == LiftExpiredBan(info0, nNow)
        pruned == [unbanned EXCEPT !.requestTimes = PruneWindow(@, nNow)]
    IN  IF AtCapacity(nActiveTransfers)
        THEN [info |-> info0, reason |-> "capacity"]
        ELSE IF IsBanActive(info0, nNow)
        THEN [info |-> info0, reason |-> "banned"]
        ELSE IF TooFast(unbanned, nNow)
        THEN [info |-> unbanned, reason |-> "too_fast"]
        ELSE IF AlreadyServed(unbanned, nChunk, nNow)
        THEN [info |-> unbanned, reason |-> "already_served"]
        ELSE IF OverRateLimit(pruned.requestTimes)
        THEN [info |-> IF OverBanThreshold(pruned.requestTimes)
                       THEN [pruned EXCEPT !.bIsBanned = TRUE,
                                           !.nBanUntil = nNow + nBanDurationSec]
                       ELSE pruned,
              reason |-> "rate_limit"]
        ELSE [info |-> [pruned EXCEPT !.requestTimes = Append(@, nNow),
                                      !.nLastRequestTime = nNow,
                                      !.nTotalRequests = @ + 1],
              reason |-> "ok"]

\* The body of AllowRequest on the entry of the peer: the entry it leaves and the
\* check that rejected the request ("ok" when the request is admitted).
AllowRequestResult(info0, nChunk, nNow) ==
    LET unbanned == LiftExpiredBan(info0, nNow)
        pruned == [unbanned EXCEPT !.requestTimes = PruneWindow(@, nNow)]
    IN  IF IsBanActive(info0, nNow)
        THEN [info |-> info0, reason |-> "banned"]
        ELSE IF AtCapacity(nActiveTransfers)
        THEN [info |-> unbanned, reason |-> "capacity"]
        ELSE IF TooFast(unbanned, nNow)
        THEN [info |-> unbanned, reason |-> "too_fast"]
        ELSE IF AlreadyServed(unbanned, nChunk, nNow)
        THEN [info |-> unbanned, reason |-> "already_served"]
        ELSE IF OverRateLimit(pruned.requestTimes)
        THEN [info |-> IF OverBanThreshold(pruned.requestTimes)
                       THEN [pruned EXCEPT !.bIsBanned = TRUE,
                                           !.nBanUntil = nNow + nBanDurationSec]
                       ELSE pruned,
              reason |-> "rate_limit"]
        ELSE [info |-> [pruned EXCEPT !.requestTimes = Append(@, nNow),
                                      !.nLastRequestTime = nNow,
                                      !.nTotalRequests = @ + 1],
              reason |-> "ok"]

LimitsUnchanged ==
    UNCHANGED <<nMaxChunksPerPeerPerMinute, nMaxConcurrentTransfers,
                nMinSecondsBetweenRequests>>

\* an AllowRequest that counts a transfer for every request, admitted or not
AllowRequestCountsRejected(addr, nChunk) ==
    LET r == AllowRequestResult(InfoOf(addr), nChunk, now)
    IN  /\ mapPeerRequests' = WithEntry(addr, r.info)
        /\ nActiveTransfers' = nActiveTransfers + 1
        /\ admitted' =
              IF r.reason = "ok"
              THEN [admitted EXCEPT ![addr] = Append(@, [chunk |-> nChunk, time |-> now])]
              ELSE admitted
        /\ lastCall' = [op |-> "AllowRequest", addr |-> addr, chunk |-> nChunk,
                        result |-> r.reason]
        /\ LimitsUnchanged
        /\ UNCHANGED <<now, servedAt>>

AllowRequest(addr, nChunk) ==
    LET r == AllowRequestResult(InfoOf(addr), nChunk, now)
    IN  /\ mapPeerRequests' = WithEntry(addr, r.info)
        /\ nActiveTransfers' =
              IF r.reason = "ok" THEN nActiveTransfers + 1 ELSE nActiveTransfers
        /\ admitted' =
              IF r.reason = "ok"
              THEN [admitted EXCEPT ![addr] = Append(@, [chunk |-> nChunk, time |-> now])]
              ELSE admitted
        /\ lastCall' = [op |-> "AllowRequest", addr |-> addr, chunk |-> nChunk,
                        result |-> r.reason]
        /\ LimitsUnchanged
        /\ UNCHANGED <<now, servedAt>>

RecordServed(addr, nChunk) ==
    LET info == InfoOf(addr)
        served == [c \in DOMAIN info.servedChunks \cup {nChunk} |->
                      IF c = nChunk THEN now ELSE info.servedChunks[c]]
    IN  /\ mapPeerRequests' = WithEntry(addr, [info EXCEPT !.servedChunks = served])
        /\ lastCall' = [op |-> "RecordServed", addr |-> addr, chunk |-> nChunk,
                        result |-> "done"]
        /\ servedAt' = [p \in DOMAIN servedAt \cup {<<addr, nChunk>>} |->
                           IF p = <<addr, nChunk>> THEN now ELSE servedAt[p]]
        /\ LimitsUnchanged
        /\ UNCHANGED <<now, nActiveTransfers, admitted>>

\* CompleteTransfer without its guard
CompleteTransferUnguarded(active) == active - 1

\* if (nActiveTransfers > 0) nActiveTransfers--;
CompleteTransferCount(active) == IF active > 0 THEN active - 1 ELSE active

CompleteTransfer ==
    /\ nActiveTransfers' = CompleteTransferCount(nActiveTransfers)
    /\ lastCall' = [op |-> "CompleteTransfer", addr |-> 0, chunk |-> 0,
                    result |-> IF nActiveTransfers > 0 THEN "released" ELSE "idle"]
    /\ LimitsUnchanged
    /\ UNCHANGED <<now, mapPeerRequests, admitted, servedAt>>

\* if ((nNow - it->second.nLastRequestTime) > 600 && !it->second.bIsBanned) erase
CleanupErases(info, nNow) ==
    (nNow - info.nLastRequestTime) > PeerExpirySec /\ ~info.bIsBanned

Cleanup ==
    LET kept == {a \in DOMAIN mapPeerRequests : ~CleanupErases(mapPeerRequests[a], now)}
    IN  /\ mapPeerRequests' = [a \in kept |-> mapPeerRequests[a]]
        /\ lastCall' = [op |-> "Cleanup", addr |-> 0, chunk |-> 0, result |-> "done"]
        /\ LimitsUnchanged
        /\ UNCHANGED <<now, nActiveTransfers, admitted, servedAt>>

\* the instants at which calls reach the limiter
TimePoints ==
    {StartTime + o + j : o \in {0, RequestWindowSec}, j \in 0..Jitter}

\* GetTime() moves on to a later instant of the set
Tick(points) ==
    /\ \E t \in points : t > now /\ now' = t
    /\ lastCall' = [op |-> "Tick", addr |-> 0, chunk |-> 0, result |-> "done"]
    /\ LimitsUnchanged
    /\ UNCHANGED <<mapPeerRequests, nActiveTransfers, admitted, servedAt>>

\* CSnapshotRateLimiter(): the default limits
DefaultLimits ==
    [perMinute |-> DefaultMaxChunksPerPeerPerMinute,
     concurrent |-> DefaultMaxConcurrentTransfers,
     minSeconds |-> DefaultMinSecondsBetweenRequests]

\* CSnapshotRateLimiter() followed by the startup SetLimits call: the defaults, or
\* the operator's overrides
LimitConfigs ==
    { DefaultLimits,
      [perMinute |-> TightChunksPerMinute,
       concurrent |-> TightConcurrent,
       minSeconds |-> TightMinSeconds] }

\* The limiter after construction and SetLimits, with `active` transfers running.
RLConstructed(cfg, active) ==
    /\ now = StartTime
    /\ mapPeerRequests = EmptyMap
    /\ nMaxChunksPerPeerPerMinute = cfg.perMinute
    /\ nMaxConcurrentTransfers = cfg.concurrent
    /\ nMinSecondsBetweenRequests = cfg.minSeconds
    /\ nActiveTransfers = active
    /\ nSent = 0
    /\ admitted = [p \in Peers |-> <<>>]
    /\ servedAt = EmptyMap
    /\ lastCall = [op |-> "construct", addr |-> 0, chunk |-> 0, result |-> "done"]

\* the coordinator and the download state as constructed
CoordConstructed ==
    /\ mapPeerStates = EmptyMap
    /\ mapChunkToNode = {}
    /\ mapChunksReceived = {}
    /\ coCall = [op |-> "construct", node |-> 0, chunk |-> 0, result |-> 0]
    /\ requestedAt = EmptyMap
    /\ mapChunkRequests = EmptyMap
    /\ marks = <<>>

(***************************************************************************)
(* Chunk bytes, digests and the manifest.                                  *)
(***************************************************************************)
Bytes == {0, 1}

\* the byte strings peers deliver as chunk data: up to one byte longer than a chunk
DataCandidates == UNION {[1..n -> Bytes] : n \in 0..(ChunkSize + 1)}

\* the bytes create-snapshot.sh cut chunk n from
GoodChunk(n) == [i \in 1..ChunkSize |-> (n + i) % 2]

Prefix(data, n) == SubSeq(data, 1, IF n < Len(data) THEN n ELSE Len(data))

\* CSHA256().Write(data).Finalize(hashBytes): a 16-valued compression run over the
\* bytes, written out as two base-4 digits, most significant first
RECURSIVE SHA256State(_)
SHA256State(data) ==
    IF data = <<>> THEN 0
    ELSE (5 * SHA256State(Prefix(data, Len(data) - 1)) + data[Len(data)] + 1) % 16

CSHA256(data) == <<SHA256State(data) \div 4, SHA256State(data) % 4>>

\* *(hash.begin() + i) = hashBytes[31 - i]
ReverseBytes(hashBytes) ==
    [i \in 1..Len(hashBytes) |-> hashBytes[Len(hashBytes) + 1 - i]]

\* uint256S(<hex digest printed by sha256sum>): the digest bytes in reverse order
uint256S(hashBytes) == ReverseBytes(hashBytes)

\* CSnapshotManifest(): nTimestamp is never read and is left out
EmptyManifest == [nBlockHeight |-> 0, nTotalSize |-> 0, vChunks |-> EmptyMap]

GetHardcodedManifest ==
    [nBlockHeight |-> 1,
     nTotalSize |-> StoreChunks * ChunkSize,
     vChunks |-> [n \in 0..(StoreChunks - 1) |->
                     [nChunkNumber |-> n,
                      hashChunk |-> uint256S(CSHA256(GoodChunk(n))),
                      nSize |-> ChunkSize]]]

\* the manifest of a store that was initialized on a fresh data directory
manifest == GetHardcodedManifest

GetChunkCount == Cardinality(DOMAIN manifest.vChunks)

\* "no such file": the value of a path that does not exist
NoFile == <<-1>>

\* the disk after InitSnapshotStore on a fresh data directory: Initialize has
\* created snapshots/<height>/ and SaveManifest has written manifest.dat
FreshDisk ==
    [dir |-> TRUE, manifestDat |-> TRUE, chunks |-> EmptyMap, combined |-> NoFile,
     dataDir |-> <<>>]

StoreConstructed ==
    /\ disk = FreshDisk
    /\ stPre = FreshDisk
    /\ stCall = [op |-> "Initialize", chunk |-> 0, data |-> <<>>, result |-> TRUE]

\* no thread is inside SaveChunk
NotSaving == [pc |-> "idle", chunk |-> 0, data |-> <<>>, written |-> 0]

\* the store pointer and manifest.dat after InitSnapshotStore on a fresh data
\* directory; no chunk was saved yet
ManifestConstructed ==
    /\ saving = NotSaving
    /\ accepted = EmptyMap
    /\ psnapshotstore = [null |-> FALSE, manifest |-> GetHardcodedManifest]
    /\ manifestDat = [state |-> "manifest", manifest |-> GetHardcodedManifest]
    /\ mfCall = [op |-> "InitSnapshotStore", result |-> TRUE]

\* Transfers may already be running for peers whose entries an earlier Cleanup
\* sweep has erased (Cleanup erases the entry, never the transfer), so the counter
\* starts at 0 or one below the limit.
Init ==
    /\ \E cfg \in LimitConfigs : \E active \in {0, cfg.concurrent - 1} :
          RLConstructed(cfg, active)
    /\ CoordConstructed
    /\ StoreConstructed
    /\ ManifestConstructed

\* what a call to the limiter leaves alone
LimiterOnly == UNCHANGED <<nSent, coVars, stVars, mfVars, svVars, dsVars>>

Next ==
    \/ \E addr \in Peers, nChunk \in Chunks : AllowRequest(addr, nChunk) /\ LimiterOnly
    \/ \E addr \in Peers, nChunk \in Chunks : RecordServed(addr, nChunk) /\ LimiterOnly
    \/ CompleteTransfer /\ LimiterOnly
    \/ Cleanup /\ LimiterOnly
    \/ Tick(TimePoints) /\ LimiterOnly

Spec == Init /\ [][Next]_vars

(***************************************************************************)
(* One peer floods the limiter (default limits): request i arrives         *)
(* FloodSchedule(i) - the first 30 requests 2 seconds apart, as fast as    *)
(* the limiter admits them, and all the others in the 59th second, so the  *)
(* FloodRequests requests span less than a minute. No chunk is recorded    *)
(* as served to the peer, so no request is a duplicate. Transfers complete *)
(* at any time.                                                            *)
(***************************************************************************)
FloodPeer == CHOOSE p \in Peers : \A q \in Peers : p <= q

FloodSchedule(i) ==
    LET paced == DefaultMinSecondsBetweenRequests * (i - 1)
    IN  StartTime + (IF paced < RequestWindowSec - 1 THEN paced ELSE RequestWindowSec - 1)

FloodRequest ==
    /\ nSent < FloodRequests
    /\ now = FloodSchedule(nSent + 1)
    /\ \E nChunk \in Chunks : AllowRequest(FloodPeer, nChunk)
    /\ nSent' = nSent + 1
    /\ UNCHANGED <<coVars, stVars, mfVars, svVars, dsVars>>

FloodTick ==
    /\ nSent < FloodRequests
    /\ now < FloodSchedule(nSent + 1)
    /\ Tick({FloodSchedule(nSent + 1)})
    /\ LimiterOnly

InitFlood ==
    RLConstructed(DefaultLimits, 0) /\ CoordConstructed /\ StoreConstructed /\ ManifestConstructed

NextFlood ==
    \/ FloodRequest
    \/ FloodTick
    \/ CompleteTransfer /\ LimiterOnly

SpecFlood == InitFlood /\ [][NextFlood]_vars

(***************************************************************************)
(* Claims about the rate limiter.                                          *)
(***************************************************************************)

\* C1: in every reachable state 0 <= nActiveTransfers <= nMaxConcurrentTransfers,
\* and a request is admitted only while nActiveTransfers < nMaxConcurrentTransfers
\* (so the counter after an admission is between 1 and the limit).
C1_ActiveTransfersBounded ==
    /\ 0 <= nActiveTransfers
    /\ nActiveTransfers <= nMaxConcurrentTransfers
    /\ (lastCall.op = "AllowRequest" /\ lastCall.result = "ok")
          => nActiveTransfers - 1 < nMaxConcurrentTransfers

\* C1 witness: with the default limit of 25 every slot is taken and a request was
\* just rejected because the server is at capacity.
C1_Witness ==
    /\ nMaxConcurrentTransfers = DefaultMaxConcurrentTransfers
    /\ nActiveTransfers = nMaxConcurrentTransfers
    /\ lastCall.op = "AllowRequest"
    /\ lastCall.result = "capacity"

\* the admissions of peer p whose timestamp lies in the window [w, w + 60)
AdmittedInWindow(p, w) ==
    {i \in DOMAIN admitted[p] :
        w <= admitted[p][i].time /\ admitted[p][i].time < w + RequestWindowSec}

\* C2: for every peer and every 60-second window, at most
\* nMaxChunksPerPeerPerMinute admitted requests have their timestamp in the window
\* (a window that holds admissions holds no more than the window of the same
\* length starting at its earliest admission).
C2_AdmittedPerWindow ==
    \A p \in Peers : \A i \in DOMAIN admitted[p] :
        Cardinality(AdmittedInWindow(p, admitted[p][i].time))
            <= nMaxChunksPerPeerPerMinute

\* C2 witness: a peer whose window is full is rejected for the rate limit, exactly
\* 60 seconds after its oldest admission in the window.
C2_Witness ==
    /\ lastCall.op = "AllowRequest"
    /\ lastCall.result = "rate_limit"
    /\ LET times == mapPeerRequests[lastCall.addr].requestTimes
       IN  /\ Len(times) = nMaxChunksPerPeerPerMinute
           /\ now - Head(times) = RequestWindowSec

\* C3: (ban clause) once the flooding peer has sent 100 requests within the minute
\* its ban is set, to end 300 seconds after the request that set it, and every later
\* request is rejected as banned.
C3_BannedFromRequest100 ==
    nSent >= nBanThreshold =>
        /\ InfoOf(FloodPeer).bIsBanned
        /\ InfoOf(FloodPeer).nBanUntil = FloodSchedule(nBanThreshold) + nBanDurationSec
        /\ (nSent > nBanThreshold /\ lastCall.op = "AllowRequest")
              => lastCall.result = "banned"

\* C4: two requests of the same peer for the same chunk are never both admitted
\* within nDuplicateChunkWindowSec of each other.
C4_NoDuplicateAdmission ==
    \A p \in Peers : \A i, j \in DOMAIN admitted[p] :
        (i < j /\ admitted[p][i].chunk = admitted[p][j].chunk)
            => admitted[p][j].time - admitted[p][i].time >= nDuplicateChunkWindowSec

(***************************************************************************)
(* CSnapshotDownloadState and CSnapshotDownloadCoordinator (fetching       *)
(* side). mapChunksReceived only ever maps a chunk to true, so it is the   *)
(* set of its keys. The progress fields of the download state              *)
(* (nDownloadStartTime, nLastProgressTime, nLastProgressCount) only drive  *)
(* log lines and are left out. mapChunkToNode is a std::map: the set of    *)
(* its (chunk, node) entries, written through MapPut and MapErase.         *)
(***************************************************************************)
ChunkNumbers == 0..(TotalChunks - 1)

IsChunkReceived(nChunk) == nChunk \in mapChunksReceived

IsComplete == \A i \in ChunkNumbers : IsChunkReceived(i)

\* the first chunk not received, nTotalChunks when all are
GetNextChunkToRequest ==
    IF \E i \in ChunkNumbers : ~IsChunkReceived(i)
    THEN CHOOSE i \in ChunkNumbers :
            ~IsChunkReceived(i) /\ \A j \in ChunkNumbers : j < i => IsChunkReceived(j)
    ELSE TotalChunks

GetReceivedCount == Cardinality(mapChunksReceived)

\* PeerDownloadState()
NewPeerDownloadState ==
    [nLastRequestTime |-> 0, nChunksRequested |-> 0, nChunksFailed |-> 0,
     nConsecutiveFailures |-> 0, nBackoffUntil |-> 0]

\* mapPeerStates[node] as the code reads it
PeerStateOf(node) ==
    IF node \in DOMAIN mapPeerStates THEN mapPeerStates[node] ELSE NewPeerDownloadState

\* mapPeerStates after the entry of node was created or written
WithPeerState(node, state) ==
    [n \in DOMAIN mapPeerStates \cup {node} |->
        IF n = node THEN state ELSE mapPeerStates[n]]

\* mapChunkToNode.find(nChunk) != end()
InFlight(nChunk) == \E e \in mapChunkToNode : e[1] = nChunk

\* mapChunkToNode[nChunk] = node
MapPut(nChunk, node) ==
    {e \in mapChunkToNode : e[1] # nChunk} \cup {<<nChunk, node>>}

\* mapChunkToNode.erase(nChunk)
MapErase(nChunk) == {e \in mapChunkToNode : e[1] # nChunk}

\* the request times of the chunks that stay in the in-flight map
StillInFlight(inFlight) ==
    [c \in {e[1] : e \in inFlight} \cap DOMAIN requestedAt |-> requestedAt[c]]

\* a loop that takes the first listed peer, whatever its backoff and last request
PickBestPeerFirst(list, bestPeer, oldestRequestTime, nNow) ==
    IF list = <<>> THEN bestPeer ELSE Head(list)

\* the loop over vAvailablePeers: the peer it ends with
RECURSIVE PickBestPeer(_, _, _, _)
PickBestPeer(list, bestPeer, oldestRequestTime, nNow) ==
    IF list = <<>> THEN bestPeer
    ELSE LET node == Head(list)
             state == PeerStateOf(node)
         IN  IF state.nBackoffUntil > nNow
             THEN PickBestPeer(Tail(list), bestPeer, oldestRequestTime, nNow)
             ELSE IF (nNow - state.nLastRequestTime) < MIN_SECONDS_BETWEEN_REQUESTS
             THEN PickBestPeer(Tail(list), bestPeer, oldestRequestTime, nNow)
             ELSE IF bestPeer = NoPeer \/ state.nLastRequestTime < oldestRequestTime
             THEN PickBestPeer(Tail(list), node, state.nLastRequestTime, nNow)
             ELSE PickBestPeer(Tail(list), bestPeer, oldestRequestTime, nNow)

\* a selection that skips the in-flight check
ChunkBlocksSelectionNever(nChunk) == FALSE

\* if (it != mapChunkToNode.end()) return -1;
ChunkBlocksSelection(nChunk) == InFlight(nChunk)

\* the guards without the test of the size of the in-flight map
SelectionRefusedAnySize(vAvailablePeers) ==
    \/ vAvailablePeers = <<>>
    \/ IsComplete
    \/ ChunkBlocksSelection(GetNextChunkToRequest)

\* the guards in front of the loop
SelectionRefused(vAvailablePeers) ==
    \/ vAvailablePeers = <<>>
    \/ IsComplete
    \/ ChunkBlocksSelection(GetNextChunkToRequest)
    \/ Cardinality(mapChunkToNode) >= MAX_CONCURRENT_PEER_REQUESTS

\* the vectors of available peers handed to SelectPeerForNextChunk
AvailableLists ==
    {list \in UNION {[1..n -> Nodes] : n \in 0..Cardinality(Nodes)} :
        \A i, j \in DOMAIN list : i # j => list[i] # list[j]}

\* coCall.result is the peer returned, coCall.chunk is the chunk nChunkOut names
\* when the call wrote it
SelectPeerForNextChunk(vAvailablePeers) ==
    /\ IF SelectionRefused(vAvailablePeers)
       THEN /\ coCall' = [op |-> "SelectPeerForNextChunk", node |-> 0,
                          chunk |-> GetNextChunkToRequest, result |-> NoPeer]
            /\ UNCHANGED mapPeerStates
       ELSE /\ coCall' = [op |-> "SelectPeerForNextChunk", node |-> 0,
                          chunk |-> GetNextChunkToRequest,
                          result |-> PickBestPeer(vAvailablePeers, NoPeer, now, now)]
            \* mapPeerStates[node] creates the entry of every peer of the list
            /\ mapPeerStates' =
                  [n \in DOMAIN mapPeerStates \cup {vAvailablePeers[i] : i \in DOMAIN vAvailablePeers}
                      |-> PeerStateOf(n)]
    /\ UNCHANGED <<now, mapChunkToNode, mapChunksReceived, requestedAt>>

\* RecordRequest while the peer has fewer than cap requests on record
RecordRequestUpTo(node, nChunk, cap) ==
    /\ PeerStateOf(node).nChunksRequested < cap
    /\ mapPeerStates' =
          WithPeerState(node, [PeerStateOf(node) EXCEPT !.nLastRequestTime = now,
                                                        !.nChunksRequested = @ + 1])
    /\ mapChunkToNode' = MapPut(nChunk, node)
    /\ requestedAt' = [c \in DOMAIN requestedAt \cup {nChunk} |->
                          IF c = nChunk THEN now ELSE requestedAt[c]]
    /\ coCall' = [op |-> "RecordRequest", node |-> 0, chunk |-> 0, result |-> 0]
    /\ UNCHANGED <<now, mapChunksReceived>>

RecordRequest(node, nChunk) == RecordRequestUpTo(node, nChunk, MaxChunksRequested)

RecordSuccess(node, nChunk) ==
    /\ mapPeerStates' =
          WithPeerState(node, [PeerStateOf(node) EXCEPT !.nConsecutiveFailures = 0,
                                                        !.nBackoffUntil = 0])
    /\ mapChunkToNode' = MapErase(nChunk)
    /\ requestedAt' = StillInFlight(MapErase(nChunk))
    /\ coCall' = [op |-> "RecordSuccess", node |-> 0, chunk |-> 0, result |-> 0]
    /\ UNCHANGED <<now, mapChunksReceived>>

\* a backoff that does not grow
BackoffTimeFlat(nConsecutiveFailures) == 10

\* Exponential backoff: 10s, 30s, 60s, 300s
BackoffTime(nConsecutiveFailures) ==
    IF nConsecutiveFailures >= 4 THEN 300
    ELSE IF nConsecutiveFailures = 3 THEN 60
    ELSE IF nConsecutiveFailures = 2 THEN 30
    ELSE 10

\* RecordFailure that leaves the chunk in the in-flight map
RecordFailureKeepsEntry(node, nChunk) ==
    /\ PeerStateOf(node).nChunksFailed < MaxChunksFailed
    /\ LET state == PeerStateOf(node)
           failures == state.nConsecutiveFailures + 1
       IN  mapPeerStates' =
              WithPeerState(node, [state EXCEPT !.nChunksFailed = @ + 1,
                                                !.nConsecutiveFailures = failures,
                                                !.nBackoffUntil = now + BackoffTime(failures)])
    /\ coCall' = [op |-> "RecordFailure", node |-> node, chunk |-> nChunk, result |-> 0]
    /\ UNCHANGED <<now, mapChunkToNode, requestedAt, mapChunksReceived>>

\* RecordFailure while the peer has fewer than cap failures on record;
\* coCall.node and coCall.chunk are the peer and chunk of the failure
RecordFailureUpTo(node, nChunk, cap) ==
    /\ PeerStateOf(node).nChunksFailed < cap
    /\ LET state == PeerStateOf(node)
           failures == state.nConsecutiveFailures + 1
       IN  mapPeerStates' =
              WithPeerState(node, [state EXCEPT !.nChunksFailed = @ + 1,
                                                !.nConsecutiveFailures = failures,
                                                !.nBackoffUntil = now + BackoffTime(failures)])
    /\ mapChunkToNode' = MapErase(nChunk)
    /\ requestedAt' = StillInFlight(MapErase(nChunk))
    /\ coCall' = [op |-> "RecordFailure", node |-> node, chunk |-> nChunk, result |-> 0]
    /\ UNCHANGED <<now, mapChunksReceived>>

RecordFailure(node, nChunk) == RecordFailureUpTo(node, nChunk, MaxChunksFailed)

\* the entries whose own RecordRequest is more than REQUEST_TIMEOUT_SEC old
Overdue(nNow) ==
    {e \in mapChunkToNode : nNow - requestedAt[e[1]] > REQUEST_TIMEOUT_SEC}

\* the entries GetTimedOutRequests reports and erases
TimedOutEntries(nNow) ==
    {e \in mapChunkToNode :
        /\ e[2] \in DOMAIN mapPeerStates
        /\ nNow - mapPeerStates[e[2]].nLastRequestTime > REQUEST_TIMEOUT_SEC}

\* coCall.result is the vector returned, as the set of its (chunk, node) pairs
GetTimedOutRequests ==
    /\ mapChunkToNode' = mapChunkToNode \ TimedOutEntries(now)
    /\ requestedAt' = StillInFlight(mapChunkToNode \ TimedOutEntries(now))
    /\ coCall' = [op |-> "GetTimedOutRequests", node |-> 0, chunk |-> 0,
                  result |-> TimedOutEntries(now),
                  inFlight |-> mapChunkToNode, overdue |-> Overdue(now)]
    /\ UNCHANGED <<now, mapPeerStates, mapChunksReceived>>

\* RemovePeer that forgets the peer and leaves its in-flight entries
RemovePeerStateOnly(node) ==
    /\ mapPeerStates' = [n \in DOMAIN mapPeerStates \ {node} |-> mapPeerStates[n]]
    /\ coCall' = [op |-> "RemovePeer", node |-> node, chunk |-> 0, result |-> 0,
                  lost |-> {e[1] : e \in {f \in mapChunkToNode : f[2] = node}}]
    /\ UNCHANGED <<now, mapChunkToNode, requestedAt, mapChunksReceived>>

\* coCall.lost is the set of chunks that were in flight to the peer
RemovePeer(node) ==
    /\ mapPeerStates' = [n \in DOMAIN mapPeerStates \ {node} |-> mapPeerStates[n]]
    /\ mapChunkToNode' = {e \in mapChunkToNode : e[2] # node}
    /\ requestedAt' = StillInFlight({e \in mapChunkToNode : e[2] # node})
    /\ coCall' = [op |-> "RemovePeer", node |-> node, chunk |-> 0, result |-> 0,
                  lost |-> {e[1] : e \in {f \in mapChunkToNode : f[2] = node}}]
    /\ UNCHANGED <<now, mapChunksReceived>>

\* a MarkChunkReceived that only takes the chunk the download is waiting for
MarkChunkReceivedInOrder(nChunk) ==
    /\ mapChunksReceived' =
          IF nChunk < TotalChunks /\ nChunk = GetNextChunkToRequest
          THEN mapChunksReceived \cup {nChunk}
          ELSE mapChunksReceived
    /\ coCall' = [op |-> "MarkChunkReceived", node |-> 0, chunk |-> 0, result |-> 0]
    /\ UNCHANGED <<now, mapPeerStates, mapChunkToNode, requestedAt>>

\* MarkChunkReceived without the test of the chunk number
MarkChunkReceivedUnchecked(nChunk) ==
    /\ mapChunksReceived' = mapChunksReceived \cup {nChunk}
    /\ coCall' = [op |-> "MarkChunkReceived", node |-> 0, chunk |-> 0, result |-> 0]
    /\ UNCHANGED <<now, mapPeerStates, mapChunkToNode, requestedAt>>

\* if (nChunk < nTotalChunks) mapChunksReceived[nChunk] = true;
MarkChunkReceived(nChunk) ==
    /\ mapChunksReceived' =
          IF nChunk < TotalChunks THEN mapChunksReceived \cup {nChunk}
          ELSE mapChunksReceived
    /\ coCall' = [op |-> "MarkChunkReceived", node |-> 0, chunk |-> 0, result |-> 0]
    /\ UNCHANGED <<now, mapPeerStates, mapChunkToNode, requestedAt>>

\* the instants at which the fetch loop calls the coordinator
CoordTimePoints ==
    {StartTime, StartTime + MIN_SECONDS_BETWEEN_REQUESTS,
     StartTime + REQUEST_TIMEOUT_SEC + 1}

CoordTick ==
    /\ \E t \in CoordTimePoints : t > now /\ now' = t
    /\ coCall' = [op |-> "Tick", node |-> 0, chunk |-> 0, result |-> 0]
    /\ UNCHANGED <<mapPeerStates, mapChunkToNode, mapChunksReceived, requestedAt>>

InitCoord ==
    /\ RLConstructed(DefaultLimits, 0)
    /\ CoordConstructed
    /\ StoreConstructed
    /\ ManifestConstructed

\* what a call to the coordinator or the download state leaves alone
CoordOnly == UNCHANGED <<rlVars, stVars, mfVars, svVars, dsVars>>

NextCoord ==
    \/ \E list \in AvailableLists : SelectPeerForNextChunk(list) /\ CoordOnly
    \/ \E node \in Nodes, nChunk \in ChunkNumbers :
          RecordRequest(node, nChunk) /\ CoordOnly
    \/ \E node \in Nodes, nChunk \in ChunkNumbers :
          RecordSuccess(node, nChunk) /\ CoordOnly
    \/ \E node \in Nodes, nChunk \in ChunkNumbers :
          RecordFailure(node, nChunk) /\ CoordOnly
    \/ GetTimedOutRequests /\ CoordOnly
    \/ \E node \in Nodes : RemovePeer(node) /\ CoordOnly
    \/ \E nChunk \in 0..TotalChunks : MarkChunkReceived(nChunk) /\ CoordOnly
    \/ CoordTick /\ CoordOnly

SpecCoord == InitCoord /\ [][NextCoord]_vars

(***************************************************************************)
(* Claims about the download coordinator.                                  *)
(***************************************************************************)

\* C5: at every instant each chunk number has at most one peer in the in-flight
\* map, and a SelectPeerForNextChunk call that returns a peer returns it for a
\* chunk that is not in the in-flight map.
C5_OnePeerPerChunk ==
    /\ \A e1, e2 \in mapChunkToNode : e1[1] = e2[1] => e1[2] = e2[2]
    /\ (coCall.op = "SelectPeerForNextChunk" /\ coCall.result # NoPeer)
          => ~InFlight(coCall.chunk)

\* C5 witness: a chunk is in flight to one peer, another peer is free, and
\* SelectPeerForNextChunk has just returned that other peer for a later chunk.
C5_Witness ==
    /\ coCall.op = "SelectPeerForNextChunk"
    /\ coCall.result # NoPeer
    /\ \E e \in mapChunkToNode : e[2] # coCall.result /\ e[1] # coCall.chunk

(***************************************************************************)
(* CSnapshotStore (chunk store and assembler). disk holds the snapshot     *)
(* directory snapshots/<height>/ (dir: it exists; manifestDat: manifest.dat*)
(* exists; chunks: the chunk-NNN.dat files that exist, with their bytes;   *)
(* combined: snapshot-combined.tar.gz) and dataDir, the data the archive   *)
(* extraction has written under the blocks and chainstate subtrees of the  *)
(* target directory. The file system can refuse to open a file, stop a     *)
(* write part-way and make the extraction command fail at any point;       *)
(* deletions succeed.                                                      *)
(***************************************************************************)
\* a comparison that accepts every digest
HashMatchesAlways(hash, hashChunk) == TRUE

\* !(hash != info.hashChunk)
HashMatches(hash, hashChunk) == hash = hashChunk

VerifyChunk(nChunk, vData) ==
    IF nChunk >= GetChunkCount THEN FALSE
    ELSE IF Len(vData) # manifest.vChunks[nChunk].nSize THEN FALSE
    ELSE HashMatches(ReverseBytes(CSHA256(vData)), manifest.vChunks[nChunk].hashChunk)

HasChunk(d, nChunk) ==
    IF nChunk >= GetChunkCount THEN FALSE ELSE nChunk \in DOMAIN d.chunks

\* the chunk files after path chunk-NNN.dat was opened for writing and holds data
WithFile(chunks, nChunk, data) ==
    [n \in DOMAIN chunks \cup {nChunk} |-> IF n = nChunk THEN data ELSE chunks[n]]

\* opened: the ofstream opens; written: the bytes that reach the file before the
\* write stops. Nothing reads the stream state after write and close.
SaveChunkOutcome(nChunk, vData, opened, written) ==
    IF nChunk >= GetChunkCount THEN [disk |-> disk, result |-> FALSE]
    ELSE IF ~VerifyChunk(nChunk, vData) THEN [disk |-> disk, result |-> FALSE]
    ELSE IF ~(disk.dir /\ opened) THEN [disk |-> disk, result |-> FALSE]
    ELSE [disk |-> [disk EXCEPT !.chunks = WithFile(@, nChunk, Prefix(vData, written))],
          result |-> TRUE]

SaveChunk(nChunk, vData, opened, written) ==
    /\ stPre' = disk
    /\ disk' = SaveChunkOutcome(nChunk, vData, opened, written).disk
    /\ stCall' = [op |-> "SaveChunk", chunk |-> nChunk, data |-> vData,
                  result |-> SaveChunkOutcome(nChunk, vData, opened, written).result]

\* the chunk files 0..n-1, one after the other
RECURSIVE Concatenate(_, _)
Concatenate(chunks, n) ==
    IF n = 0 THEN <<>> ELSE Concatenate(chunks, n - 1) \o chunks[n - 1]

\* the archive create-snapshot.sh cut into chunks
GoodArchive == Concatenate([n \in 0..(StoreChunks - 1) |-> GoodChunk(n)], StoreChunks)

\* how far two byte strings agree
RECURSIVE CommonPrefixLen(_, _)
CommonPrefixLen(a, b) ==
    IF a = <<>> \/ b = <<>> THEN 0
    ELSE IF Head(a) # Head(b) THEN 0
    ELSE 1 + CommonPrefixLen(Tail(a), Tail(b))

\* tar -xzf stream -C dataDir: it writes what it has read of the archive until it
\* is stopped (wanted bytes) or meets the first byte that is not the archive's,
\* and exits with 0 only after the whole archive
TarExtract(dataDir, stream, wanted) ==
    LET sound == CommonPrefixLen(stream, GoodArchive)
        n == IF wanted < sound THEN wanted ELSE sound
    IN  [dataDir |-> SubSeq(stream, 1, n) \o SubSeq(dataDir, n + 1, Len(dataDir)),
         exit |-> IF stream = GoodArchive /\ n = Len(GoodArchive) THEN 0 ELSE 1]

\* for (i...) if (!HasChunk(i)) return false;
ChunkMissing(d) == \E i \in 0..(GetChunkCount - 1) : ~HasChunk(d, i)

\* created: the combined file opens; unreadable: the first chunk LoadChunk fails to
\* open (GetChunkCount: none); extracted: the bytes tar gets to before it is stopped
ExtractSnapshotOutcome(created, unreadable, extracted) ==
    IF ChunkMissing(disk) THEN [disk |-> disk, result |-> FALSE]
    ELSE IF ~created THEN [disk |-> disk, result |-> FALSE]
    ELSE IF unreadable < GetChunkCount
    THEN [disk |-> [disk EXCEPT !.combined = Concatenate(disk.chunks, unreadable)],
          result |-> FALSE]
    ELSE LET stream == Concatenate(disk.chunks, GetChunkCount)
             tar == TarExtract(disk.dataDir, stream, extracted)
         IN  IF tar.exit # 0
             THEN [disk |-> [disk EXCEPT !.combined = stream, !.dataDir = tar.dataDir],
                   result |-> FALSE]
             ELSE [disk |-> [disk EXCEPT !.combined = NoFile, !.dataDir = tar.dataDir],
                   result |-> TRUE]

ExtractSnapshot(created, unreadable, extracted) ==
    /\ stPre' = disk
    /\ disk' = ExtractSnapshotOutcome(created, unreadable, extracted).disk
    /\ stCall' = [op |-> "ExtractSnapshot", chunk |-> 0, data |-> <<>>,
                  result |-> ExtractSnapshotOutcome(created, unreadable, extracted).result]

\* a cleanup that deletes the chunk files and nothing else
RemoveChunkFilesOnly(d) == [d EXCEPT !.chunks = EmptyMap]

\* boost::filesystem::remove_all(pathSnapshotDir)
RemoveAll(d) ==
    [d EXCEPT !.dir = FALSE, !.manifestDat = FALSE, !.chunks = EmptyMap,
              !.combined = NoFile]

CleanupChunks ==
    /\ stPre' = disk
    /\ disk' = RemoveAll(disk)
    /\ stCall' = [op |-> "CleanupChunks", chunk |-> 0, data |-> <<>>, result |-> TRUE]

\* create_directories, then LoadManifest or GetHardcodedManifest and SaveManifest:
\* manifest.dat is only ever written by SaveManifest(GetHardcodedManifest()), so
\* both ways the store holds the hardcoded manifest
Initialize ==
    /\ stPre' = disk
    /\ disk' = [disk EXCEPT !.dir = TRUE, !.manifestDat = TRUE]
    /\ stCall' = [op |-> "Initialize", chunk |-> 0, data |-> <<>>, result |-> TRUE]

(***************************************************************************)
(* Verification of the assembled snapshot. uint256 values are 0..2, 0      *)
(* being uint256().                                                        *)
(***************************************************************************)
Hashes == 0..2

\* Params().SnapshotCheckpoints()
SnapshotCheckpoints == {[nHeight |-> 1, hashBlock |-> 1, hashUTXOSet |-> 2]}

\* what pcoinsTip->GetStats(stats) reports: ok is its return value
CoinsStats == [ok : BOOLEAN, hashBlock : Hashes, hashSerialized : Hashes]

CalculateUTXOSetHash(blockHash, stats) ==
    IF ~stats.ok THEN 0 ELSE stats.hashSerialized

\* a verification without the placeholder test
VerifySnapshotUTXOHashNoPlaceholder(blockHash, nHeight, checkpoints, stats) ==
    IF checkpoints = {} THEN TRUE
    ELSE IF ~\E cp \in checkpoints : cp.nHeight = nHeight /\ cp.hashBlock = blockHash
    THEN TRUE
    ELSE LET pCheckpoint == CHOOSE cp \in checkpoints :
                                cp.nHeight = nHeight /\ cp.hashBlock = blockHash
         IN  CalculateUTXOSetHash(blockHash, stats) = pCheckpoint.hashUTXOSet

VerifySnapshotUTXOHash(blockHash, nHeight, checkpoints, stats) ==
    IF checkpoints = {} THEN TRUE
    ELSE IF ~\E cp \in checkpoints : cp.nHeight = nHeight /\ cp.hashBlock = blockHash
    THEN TRUE
    ELSE LET pCheckpoint == CHOOSE cp \in checkpoints :
                                cp.nHeight = nHeight /\ cp.hashBlock = blockHash
         IN  IF pCheckpoint.hashUTXOSet = 0 THEN TRUE
             ELSE CalculateUTXOSetHash(blockHash, stats) = pCheckpoint.hashUTXOSet

\* On a verification failure "the extracted subtrees and all chunks are deleted"
DeleteStagedSnapshot(d) == RemoveAll([d EXCEPT !.dataDir = <<>>])

\* The step that follows a successful assembly: the block hash found at the
\* checkpoint height (tipHash) is compared with the checkpoint, then the UTXO hash;
\* a mismatch deletes the staged snapshot.
VerifyAssembledSnapshot(tipHash, stats) ==
    /\ stCall.op = "ExtractSnapshot"
    /\ stCall.result
    /\ LET checkpoint == CHOOSE cp \in SnapshotCheckpoints : TRUE
           verified ==
               IF tipHash # checkpoint.hashBlock THEN FALSE
               ELSE VerifySnapshotUTXOHash(checkpoint.hashBlock, checkpoint.nHeight,
                                           SnapshotCheckpoints, stats)
       IN  /\ disk' = IF verified THEN disk ELSE DeleteStagedSnapshot(disk)
           /\ stCall' = [op |-> "VerifyAssembledSnapshot", chunk |-> 0, data |-> <<>>,
                         result |-> verified]
    /\ stPre' = disk

\* what the file system may answer to SaveChunk, which asks it nothing when it
\* rejects the data
FileSystemAnswers(nChunk, vData) ==
    IF VerifyChunk(nChunk, vData)
    THEN [opened : BOOLEAN, written : 0..ChunkSize]
    ELSE {[opened |-> TRUE, written |-> ChunkSize]}

InitStore ==
    /\ RLConstructed(DefaultLimits, 0)
    /\ CoordConstructed
    /\ StoreConstructed
    /\ ManifestConstructed

\* what a call to the store leaves alone
StoreOnly == UNCHANGED <<now, rlVars, coVars, mfVars, svVars, dsVars>>

NextStore ==
    \/ \E nChunk \in 0..StoreChunks, vData \in DataCandidates :
          \E fs \in FileSystemAnswers(nChunk, vData) :
              SaveChunk(nChunk, vData, fs.opened, fs.written) /\ StoreOnly
    \/ \E created \in BOOLEAN, unreadable \in 0..StoreChunks,
          extracted \in 0..Len(GoodArchive) :
          ExtractSnapshot(created, unreadable, extracted) /\ StoreOnly
    \/ CleanupChunks /\ StoreOnly
    \/ Initialize /\ StoreOnly
    \/ \E tipHash \in Hashes, stats \in CoinsStats :
          VerifyAssembledSnapshot(tipHash, stats) /\ StoreOnly

SpecStore == InitStore /\ [][NextStore]_vars

(***************************************************************************)
(* Claims about the chunk store, the assembler and the verification.       *)
(***************************************************************************)

\* C6: whenever SaveChunk(n, bytes) returns success, the file stored for chunk n
\* holds exactly bytes, its length is the manifest size of chunk n and its
\* byte-reversed SHA-256 is the manifest digest of chunk n, also when the write
\* stops part-way.
C6_SavedChunkIsVerifiedBytes ==
    (stCall.op = "SaveChunk" /\ stCall.result) =>
        /\ stCall.chunk \in DOMAIN disk.chunks
        /\ disk.chunks[stCall.chunk] = stCall.data
        /\ Len(disk.chunks[stCall.chunk]) = manifest.vChunks[stCall.chunk].nSize
        /\ ReverseBytes(CSHA256(disk.chunks[stCall.chunk]))
              = manifest.vChunks[stCall.chunk].hashChunk

\* the chunk number, size or digest of the data of the last SaveChunk call is not
\* what the manifest says
BadChunkData ==
    \/ stCall.chunk >= StoreChunks
    \/ Len(stCall.data) # manifest.vChunks[stCall.chunk].nSize
    \/ ReverseBytes(CSHA256(stCall.data)) # manifest.vChunks[stCall.chunk].hashChunk

\* C7: SaveChunk rejects a chunk whose number is out of range, whose size differs
\* from the manifest size or whose digest differs from the manifest digest, and a
\* rejection creates and modifies no file: the stored chunk files keep their
\* contents and HasChunk keeps its value for every chunk number.
C7_RejectionWritesNothing ==
    /\ (stCall.op = "SaveChunk" /\ BadChunkData) => ~stCall.result
    /\ (stCall.op = "SaveChunk" /\ ~stCall.result) =>
          /\ disk = stPre
          /\ \A n \in 0..StoreChunks : HasChunk(disk, n) = HasChunk(stPre, n)

\* C7 witness: a chunk file is stored and SaveChunk has just rejected data of the
\* right size and the wrong digest for that chunk.
C7_Witness ==
    /\ stCall.op = "SaveChunk"
    /\ ~stCall.result
    /\ stCall.chunk \in DOMAIN stPre.chunks
    /\ Len(stCall.data) = ChunkSize
    /\ ReverseBytes(CSHA256(stCall.data)) # manifest.vChunks[stCall.chunk].hashChunk

\* every chunk of the manifest is stored in d with the manifest's size and digest
AllChunksValid(d) ==
    \A n \in 0..(StoreChunks - 1) :
        /\ n \in DOMAIN d.chunks
        /\ Len(d.chunks[n]) = manifest.vChunks[n].nSize
        /\ ReverseBytes(CSHA256(d.chunks[n])) = manifest.vChunks[n].hashChunk

\* C8: ExtractSnapshot writes nothing into the target data directory unless every
\* chunk of the manifest is stored and the stored bytes of each match the manifest
\* size and digest at the time of assembly.
C8_ExtractionNeedsValidChunks ==
    (stCall.op = "ExtractSnapshot" /\ disk.dataDir # stPre.dataDir) => AllChunksValid(stPre)

\* C9: every failing ExtractSnapshot call leaves the target directory exactly as it
\* was before the call.
C9_FailedExtractionLeavesTarget ==
    (stCall.op = "ExtractSnapshot" /\ ~stCall.result) => disk.dataDir = stPre.dataDir

Heights == {1, 2}

\* the tables Params().SnapshotCheckpoints() may hold: none, a checkpoint with a
\* UTXO hash, a checkpoint with the all-zero placeholder
CheckpointTables ==
    {{}, SnapshotCheckpoints, {[nHeight |-> 1, hashBlock |-> 1, hashUTXOSet |-> 0]}}

\* whether the call gets as far as uint256 actualUTXOHash = CalculateUTXOSetHash(blockHash)
CalculatesUTXOSetHash(blockHash, nHeight, checkpoints) ==
    \E cp \in checkpoints :
        cp.nHeight = nHeight /\ cp.hashBlock = blockHash /\ cp.hashUTXOSet # 0

CallVerifySnapshotUTXOHash(blockHash, nHeight, checkpoints, stats) ==
    /\ stCall' = [op |-> "VerifySnapshotUTXOHash", blockHash |-> blockHash,
                  nHeight |-> nHeight, checkpoints |-> checkpoints, stats |-> stats,
                  calculated |-> CalculatesUTXOSetHash(blockHash, nHeight, checkpoints),
                  result |-> VerifySnapshotUTXOHash(blockHash, nHeight, checkpoints, stats)]
    /\ UNCHANGED <<disk, stPre>>

InitVerify == InitStore

NextVerify ==
    \E blockHash \in Hashes, nHeight \in Heights, checkpoints \in CheckpointTables,
       stats \in CoinsStats :
        CallVerifySnapshotUTXOHash(blockHash, nHeight, checkpoints, stats) /\ StoreOnly

SpecVerify == InitVerify /\ [][NextVerify]_vars

\* the checkpoints of the last call that match its height and block hash
MatchingCheckpoints ==
    {cp \in stCall.checkpoints :
        cp.nHeight = stCall.nHeight /\ cp.hashBlock = stCall.blockHash}

\* C11: when the matching checkpoint has a non-zero UTXO hash, the verification
\* succeeds exactly when the UTXO-set computation succeeds, the tip hash it
\* reports is the checkpoint block hash and the serialized hash it computes is
\* the checkpoint UTXO hash; in every other case it fails.
C11_FailsOnTipOrHashMismatch ==
    stCall.op = "VerifySnapshotUTXOHash" =>
        \A cp \in MatchingCheckpoints :
            cp.hashUTXOSet # 0 =>
                (stCall.result <=> /\ stCall.stats.ok
                                   /\ stCall.stats.hashBlock = cp.hashBlock
                                   /\ stCall.stats.hashSerialized = cp.hashUTXOSet)

(***************************************************************************)
(* Start of a node: InitSnapshotStore on a data directory into which the   *)
(* operator may have copied chunk files and a manifest.dat, and            *)
(* CanServeSnapshots. psnapshotstore is [null, manifest]: the global       *)
(* pointer and the manifest member of the store it points to; manifestDat  *)
(* is [state, manifest]: absent, not deserializable ("garbage") or holding *)
(* a serialized manifest.                                                  *)
(***************************************************************************)
IsValid(m) ==
    IF m.nBlockHeight = 0 THEN FALSE
    ELSE IF DOMAIN m.vChunks = {} THEN FALSE
    ELSE IF m.nTotalSize = 0 THEN FALSE
    ELSE \A i \in DOMAIN m.vChunks : m.vChunks[i].nChunkNumber = i

\* manifests a manifest.dat may hold besides the hardcoded one: of another
\* snapshot, with a replaced digest, with a total size that is not the sum of the
\* chunk sizes, and four that IsValid refuses
OtherManifests ==
    {[nBlockHeight |-> 2, nTotalSize |-> ChunkSize,
      vChunks |-> [n \in {0} |-> [nChunkNumber |-> 0,
                                  hashChunk |-> uint256S(CSHA256(GoodChunk(1))),
                                  nSize |-> ChunkSize]]],
     [GetHardcodedManifest EXCEPT !.vChunks[0].hashChunk = uint256S(CSHA256(<<>>))],
     [GetHardcodedManifest EXCEPT !.nTotalSize = @ + 1],
     [GetHardcodedManifest EXCEPT !.nBlockHeight = 0],
     [GetHardcodedManifest EXCEPT !.nTotalSize = 0],
     [GetHardcodedManifest EXCEPT !.vChunks = EmptyMap],
     [GetHardcodedManifest EXCEPT !.vChunks[0].nChunkNumber = 1]}

ManifestFiles ==
    {[state |-> "absent", manifest |-> EmptyManifest],
     [state |-> "garbage", manifest |-> EmptyManifest]}
    \cup {[state |-> "manifest", manifest |-> m] : m \in {GetHardcodedManifest} \cup OtherManifests}

\* LoadManifest: what it returns and the manifest member it leaves (a stream that
\* cannot be deserialized leaves the member it was given)
LoadManifest(file, member) ==
    IF file.state = "absent" THEN [result |-> FALSE, manifest |-> member]
    ELSE IF file.state = "garbage" THEN [result |-> FALSE, manifest |-> member]
    ELSE [result |-> IsValid(file.manifest), manifest |-> file.manifest]

\* SaveManifest: saved says whether fopen(manifest.dat, "wb") succeeds
SaveManifest(manifestIn, file, member, saved) ==
    IF ~saved THEN [result |-> FALSE, manifest |-> member, file |-> file]
    ELSE [result |-> TRUE, manifest |-> manifestIn,
          file |-> [state |-> "manifest", manifest |-> manifestIn]]

\* Initialize on a new store: created says whether the snapshot directory exists
\* or can be created
InitializeOutcome(file, created, saved) ==
    IF ~created THEN [result |-> FALSE, manifest |-> EmptyManifest, file |-> file]
    ELSE IF LoadManifest(file, EmptyManifest).result
    THEN [result |-> TRUE, manifest |-> LoadManifest(file, EmptyManifest).manifest,
          file |-> file]
    ELSE IF ~IsValid(GetHardcodedManifest)
    THEN [result |-> FALSE, manifest |-> GetHardcodedManifest, file |-> file]
    ELSE [result |-> TRUE,
          manifest |-> SaveManifest(GetHardcodedManifest, file, GetHardcodedManifest,
                                    saved).manifest,
          file |-> SaveManifest(GetHardcodedManifest, file, GetHardcodedManifest,
                                saved).file]

\* psnapshotstore = new CSnapshotStore(); return psnapshotstore->Initialize(nHeight);
InitSnapshotStore(creatable, saved) ==
    LET out == InitializeOutcome(manifestDat, disk.dir \/ creatable, saved)
    IN  /\ psnapshotstore' = [null |-> FALSE, manifest |-> out.manifest]
        /\ manifestDat' = out.file
        /\ disk' = [disk EXCEPT !.dir = @ \/ creatable,
                                !.manifestDat = out.file.state # "absent"]
        /\ mfCall' = [op |-> "InitSnapshotStore", result |-> out.result]
        /\ UNCHANGED <<stPre, stCall>>

\* HasChunk of a store whose manifest member is m
StoreHasChunk(m, d, nChunk) ==
    IF nChunk >= Cardinality(DOMAIN m.vChunks) THEN FALSE ELSE nChunk \in DOMAIN d.chunks

\* listen: GetBoolArg("-listen", true)
CanServeSnapshotsResult(listen) ==
    IF psnapshotstore.null THEN FALSE
    ELSE IF \E i \in DOMAIN psnapshotstore.manifest.vChunks :
                ~StoreHasChunk(psnapshotstore.manifest, disk, i)
    THEN FALSE
    ELSE IF ~listen THEN FALSE
    ELSE TRUE

CanServeSnapshots(listen) ==
    /\ mfCall' = [op |-> "CanServeSnapshots", listen |-> listen,
                  result |-> CanServeSnapshotsResult(listen)]
    /\ UNCHANGED <<psnapshotstore, manifestDat, stVars>>

\* the data directory as the operator left it before the node starts: any
\* manifest.dat and any of the snapshot's chunk files
InitManifest ==
    /\ RLConstructed(DefaultLimits, 0)
    /\ CoordConstructed
    /\ \E file \in ManifestFiles, present \in SUBSET (0..(StoreChunks - 1)) :
          /\ manifestDat = file
          /\ disk = [FreshDisk EXCEPT !.dir = (file.state # "absent" \/ present # {}),
                                      !.manifestDat = (file.state # "absent"),
                                      !.chunks = [n \in present |-> GoodChunk(n)]]
    /\ stPre = disk
    /\ stCall = [op |-> "construct", chunk |-> 0, data |-> <<>>, result |-> TRUE]
    /\ psnapshotstore = [null |-> TRUE, manifest |-> EmptyManifest]
    /\ mfCall = [op |-> "start", result |-> TRUE]
    /\ saving = NotSaving
    /\ accepted = EmptyMap

ManifestOnly == UNCHANGED <<now, rlVars, coVars, svVars, dsVars>>

NextManifest ==
    \/ \E creatable \in BOOLEAN, saved \in BOOLEAN :
          InitSnapshotStore(creatable, saved) /\ ManifestOnly
    \/ \E listen \in BOOLEAN : CanServeSnapshots(listen) /\ ManifestOnly

SpecManifest == InitManifest /\ [][NextManifest]_vars

\* C12: after CSnapshotStore::Initialize succeeds the manifest of the store is the
\* compile-time manifest of GetHardcodedManifest, whatever manifest.dat was in the
\* snapshot directory beforehand.
C12_StoreUsesHardcodedManifest ==
    (mfCall.op = "InitSnapshotStore" /\ mfCall.result) =>
        psnapshotstore.manifest = GetHardcodedManifest

\* C13: CanServeSnapshots returns true exactly when a store exists, every chunk of
\* the compile-time manifest exists in it and the node accepts inbound
\* connections; it returns false when a chunk is absent, when no store was created
\* and when the initialization of the store failed.
C13_ServesIffAllChunksAndListening ==
    mfCall.op = "CanServeSnapshots" =>
        (mfCall.result <=>
            /\ mfCall.listen
            /\ ~psnapshotstore.null
            /\ \A n \in DOMAIN GetHardcodedManifest.vChunks : n \in DOMAIN disk.chunks)

\* C14: when the write inside SaveChunk fails (the file does not open or the write
\* stops), SaveChunk returns failure and leaves no partial file: a call after
\* which the file does not hold the accepted bytes has returned failure, and
\* HasChunk reports the chunk of the call only if its file holds all its bytes.
C14_FailedWriteLeavesNoPartialFile ==
    (stCall.op = "SaveChunk" /\ ~BadChunkData) =>
        /\ (\/ stCall.chunk \notin DOMAIN disk.chunks
            \/ disk.chunks[stCall.chunk] # stCall.data) => ~stCall.result
        /\ HasChunk(disk, stCall.chunk) =>
              Len(disk.chunks[stCall.chunk]) = manifest.vChunks[stCall.chunk].nSize


\* ---------------------------------------------------------------------------
\* SaveChunk on one thread, readers of the chunk files on another. The store
\* holds no lock, so the steps of SaveChunk interleave with the readers.
\* ---------------------------------------------------------------------------

\* SaveChunk up to the construction of the ofstream, which creates or truncates
\* chunk-NNN.dat in place
SaveChunkOpen(nChunk, vData, opened) ==
    /\ saving.pc = "idle"
    /\ IF nChunk < GetChunkCount /\ VerifyChunk(nChunk, vData) /\ disk.dir /\ opened
       THEN /\ disk' = [disk EXCEPT !.chunks = WithFile(@, nChunk, <<>>)]
            /\ saving' = [pc |-> "writing", chunk |-> nChunk, data |-> vData,
                          written |-> 0]
       ELSE UNCHANGED <<disk, saving>>
    /\ UNCHANGED <<stPre, stCall, accepted>>

\* file.write: the next byte reaches the file
SaveChunkWrite ==
    /\ saving.pc = "writing"
    /\ saving.written < Len(saving.data)
    /\ disk' = [disk EXCEPT !.chunks =
                    WithFile(@, saving.chunk, Prefix(saving.data, saving.written + 1))]
    /\ saving' = [saving EXCEPT !.written = @ + 1]
    /\ UNCHANGED <<stPre, stCall, accepted>>

\* file.close and return true, whether or not the write stored every byte
SaveChunkClose ==
    /\ saving.pc = "writing"
    /\ saving' = NotSaving
    /\ accepted' = WithFile(accepted, saving.chunk, saving.data)
    /\ UNCHANGED <<disk, stPre, stCall>>

\* what a reader of chunk nChunk meets: whether a SaveChunk of that chunk is
\* under way, the bytes it verified, and the bytes the last successful
\* SaveChunk of the chunk was given
ReaderMeets(nChunk) ==
    [during   |-> saving.pc = "writing" /\ saving.chunk = nChunk,
     verified |-> saving.data,
     saved    |-> IF nChunk \in DOMAIN accepted THEN <<accepted[nChunk]>> ELSE <<>>,
     onDisk   |-> IF nChunk \in DOMAIN disk.chunks THEN disk.chunks[nChunk] ELSE <<>>]

CallHasChunk(nChunk) ==
    /\ stCall' = [op |-> "HasChunk", chunk |-> nChunk, opened |-> TRUE,
                  result |-> HasChunk(disk, nChunk), data |-> <<>>,
                  meets |-> ReaderMeets(nChunk)]
    /\ UNCHANGED <<disk, stPre, saving, accepted>>

\* opened: the ifstream opens
LoadChunkOutcome(nChunk, opened) ==
    IF nChunk >= GetChunkCount THEN [result |-> FALSE, vData |-> <<>>]
    ELSE IF nChunk \notin DOMAIN disk.chunks THEN [result |-> FALSE, vData |-> <<>>]
    ELSE IF ~opened THEN [result |-> FALSE, vData |-> <<>>]
    ELSE [result |-> TRUE, vData |-> disk.chunks[nChunk]]

LoadChunk(nChunk, opened) ==
    /\ stCall' = [op |-> "LoadChunk", chunk |-> nChunk, opened |-> opened,
                  result |-> LoadChunkOutcome(nChunk, opened).result,
                  data |-> LoadChunkOutcome(nChunk, opened).vData,
                  meets |-> ReaderMeets(nChunk)]
    /\ UNCHANGED <<disk, stPre, saving, accepted>>

\* what the two threads leave alone
ThreadsOnly == UNCHANGED <<now, rlVars, coVars, mfVars, dsVars>>

NextThreads ==
    \/ \E nChunk \in 0..StoreChunks, vData \in DataCandidates, opened \in BOOLEAN :
          SaveChunkOpen(nChunk, vData, opened) /\ ThreadsOnly
    \/ SaveChunkWrite /\ ThreadsOnly
    \/ SaveChunkClose /\ ThreadsOnly
    \/ \E nChunk \in 0..StoreChunks : CallHasChunk(nChunk) /\ ThreadsOnly
    \/ \E nChunk \in 0..StoreChunks, opened \in BOOLEAN :
          LoadChunk(nChunk, opened) /\ ThreadsOnly

SpecThreads == InitStore /\ [][NextThreads]_vars

\* C15: a reader that finds a chunk file while SaveChunk is writing that chunk
\* finds in it exactly the bytes SaveChunk verified: HasChunk reports the file
\* only when it holds them, and LoadChunk returns them.
C15_ReadersSeeOnlyCompleteChunks ==
    (stCall.op \in {"HasChunk", "LoadChunk"} /\ stCall.meets.during /\ stCall.result)
        => stCall.meets.onDisk = stCall.meets.verified

\* C16: once SaveChunk accepted bytes for a chunk, LoadChunk of that chunk
\* (its file opening, no SaveChunk of the chunk under way) succeeds and returns
\* exactly the accepted bytes, whatever was saved or loaded for other chunks.
C16_LoadReturnsSavedBytes ==
    (/\ stCall.op = "LoadChunk"
     /\ stCall.opened
     /\ ~stCall.meets.during
     /\ stCall.meets.saved # <<>>)
        => stCall.result /\ stCall.data = stCall.meets.saved[1]


\* C17: whatever chunk numbers MarkChunkReceived was called with, a complete
\* download state has received exactly nTotalChunks chunks, and the received
\* count never exceeds nTotalChunks.
C17_CompleteMeansAllChunksCounted ==
    /\ IsComplete => GetReceivedCount = TotalChunks
    /\ GetReceivedCount <= TotalChunks

C17_Witness == coCall.op = "MarkChunkReceived" /\ IsComplete


\* C18: GetTimedOutRequests returns, and erases from the in-flight map, exactly
\* the entries whose own RecordRequest is more than REQUEST_TIMEOUT_SEC old,
\* whatever was requested from the same peer since; the other entries stay.
C18_TimeoutMeasuredPerRequest ==
    coCall.op = "GetTimedOutRequests" =>
        /\ coCall.result = coCall.overdue
        /\ mapChunkToNode = coCall.inFlight \ coCall.overdue


\* ---------------------------------------------------------------------------
\* The fetch loop and the chunk-response handler, the callers of the
\* coordinator: a request is recorded for the peer and chunk that
\* SelectPeerForNextChunk returned; a response is handled for a request that is
\* in flight; each timed-out request is treated as a failure of its peer.
\* ---------------------------------------------------------------------------

\* the peer passes the backoff and request-interval tests of the selection loop
Eligible(node, nNow) == PickBestPeer(<<node>>, NoPeer, nNow, nNow) = node

FetchRequest ==
    /\ coCall.op = "SelectPeerForNextChunk"
    /\ coCall.result # NoPeer
    /\ RecordRequest(coCall.result, coCall.chunk)

\* a response with the right bytes: the chunk is saved and marked received
ChunkArrives(node, nChunk) ==
    /\ <<nChunk, node>> \in mapChunkToNode
    /\ ~IsChunkReceived(nChunk)
    /\ MarkChunkReceived(nChunk)

\* ... and the coordinator is told of the success
FetchSuccess(node, nChunk) ==
    /\ <<nChunk, node>> \in mapChunkToNode
    /\ IsChunkReceived(nChunk)
    /\ RecordSuccess(node, nChunk)

\* a response that fails the integrity check
BadChunkArrives(node, nChunk) ==
    /\ <<nChunk, node>> \in mapChunkToNode
    /\ ~IsChunkReceived(nChunk)
    /\ RecordFailure(node, nChunk)

\* a request reported by GetTimedOutRequests counts as a failure of its peer
ReapFailure(node, nChunk) ==
    /\ coCall.op = "GetTimedOutRequests"
    /\ <<nChunk, node>> \in coCall.result
    /\ RecordFailure(node, nChunk)

\* every connected peer is handed to the selection
AllPeers == <<1, 2>>

NextFetch ==
    \/ \E list \in AvailableLists : SelectPeerForNextChunk(list) /\ CoordOnly
    \/ FetchRequest /\ CoordOnly
    \/ \E node \in Nodes, nChunk \in ChunkNumbers : ChunkArrives(node, nChunk) /\ CoordOnly
    \/ \E node \in Nodes, nChunk \in ChunkNumbers : FetchSuccess(node, nChunk) /\ CoordOnly
    \/ \E node \in Nodes, nChunk \in ChunkNumbers :
          BadChunkArrives(node, nChunk) /\ CoordOnly
    \/ GetTimedOutRequests /\ CoordOnly
    \/ \E node \in Nodes, nChunk \in ChunkNumbers : ReapFailure(node, nChunk) /\ CoordOnly
    \/ \E node \in Nodes : RemovePeer(node) /\ CoordOnly
    \/ CoordTick /\ CoordOnly

SpecFetch == InitCoord /\ [][NextFetch]_vars


\* C19: after RemovePeer(P), P has no per-peer state and no in-flight entry, and
\* every chunk that was in flight to P and is still missing is the next chunk
\* to request and free; a SelectPeerForNextChunk call for a free next chunk
\* that is given an eligible peer returns an eligible peer for that chunk; and
\* GetTimedOutRequests reports only entries that are in the in-flight map with
\* a peer that has state, so never the chunk lost with P.
C19_RemovedPeerChunksAreReoffered ==
    /\ [](coCall.op = "RemovePeer" =>
            /\ coCall.node \notin DOMAIN mapPeerStates
            /\ \A e \in mapChunkToNode : e[2] # coCall.node
            /\ \A c \in coCall.lost :
                  ~IsChunkReceived(c) => c = GetNextChunkToRequest /\ ~InFlight(c))
    /\ [][\A list \in AvailableLists :
            (/\ SelectPeerForNextChunk(list)
             /\ ~IsComplete
             /\ ~InFlight(GetNextChunkToRequest)
             /\ \E i \in DOMAIN list : Eligible(list[i], now))
                => /\ coCall'.chunk = GetNextChunkToRequest
                   /\ \E i \in DOMAIN list : coCall'.result = list[i]
                   /\ Eligible(coCall'.result, now)]_vars
    /\ [](coCall.op = "GetTimedOutRequests" =>
            \A e \in coCall.result :
                e \in coCall.inFlight /\ e[2] \in DOMAIN mapPeerStates)

\* C19 witness: a peer was removed while a missing chunk was in flight to it,
\* and another peer is eligible for the chunk.
C19_Witness ==
    /\ coCall.op = "RemovePeer"
    /\ \E c \in coCall.lost : ~IsChunkReceived(c)
    /\ \E n \in DOMAIN mapPeerStates : Eligible(n, now)


\* the fetch loop under the conditions of the retry guarantee: time keeps
\* advancing, the loop keeps selecting among all connected peers and records the
\* request for a peer it was given, and a peer that is asked again and again
\* eventually answers with the right bytes
SpecFetchLive ==
    /\ SpecFetch
    /\ WF_vars(CoordTick /\ CoordOnly)
    /\ WF_vars(SelectPeerForNextChunk(AllPeers) /\ CoordOnly)
    /\ SF_vars(FetchRequest /\ CoordOnly)
    /\ SF_vars(\E node \in Nodes, nChunk \in ChunkNumbers :
                  ChunkArrives(node, nChunk) /\ CoordOnly)

\* the retry cannot go on inside the bounds of the model: the clock is at its
\* last instant with the next chunk free and no peer eligible, or the peer the
\* selection returned has used up its requests
RetryOutOfBounds ==
    \/ /\ \A t \in CoordTimePoints : t <= now
       /\ ~InFlight(GetNextChunkToRequest)
       /\ \A i \in DOMAIN AllPeers : ~Eligible(AllPeers[i], now)
    \/ /\ coCall.op = "SelectPeerForNextChunk"
       /\ coCall.result # NoPeer
       /\ PeerStateOf(coCall.result).nChunksRequested >= MaxChunksRequested

\* C20: after RecordFailure for a missing chunk, the next coordinator call, when
\* it is SelectPeerForNextChunk with some peer, returns a peer for that chunk;
\* and the download eventually completes (or the retry leaves the bounds of
\* the model).
C20_FailedChunkIsSelectedNext ==
    /\ [][\A list \in AvailableLists \ {<<>>} :
            (/\ coCall.op = "RecordFailure"
             /\ ~IsChunkReceived(coCall.chunk)
             /\ SelectPeerForNextChunk(list))
                => coCall'.result # NoPeer /\ coCall'.chunk = coCall.chunk]_vars
    /\ (coCall.op = "RecordFailure") ~> (IsComplete \/ RetryOutOfBounds)

\* C20 as the code has it: RecordFailure takes the chunk out of the in-flight
\* map; the next coordinator call, when it is SelectPeerForNextChunk with a peer
\* that is out of backoff and past the request interval, returns such a peer
\* for that chunk; and the download eventually completes (or the retry leaves
\* the bounds of the model).
C20_FailedChunkIsSelectedAgain ==
    /\ [](coCall.op = "RecordFailure" => ~InFlight(coCall.chunk))
    /\ [][\A list \in AvailableLists :
            (/\ coCall.op = "RecordFailure"
             /\ ~IsChunkReceived(coCall.chunk)
             /\ SelectPeerForNextChunk(list)
             /\ \E i \in DOMAIN list : Eligible(list[i], now))
                => /\ coCall'.chunk = coCall.chunk
                   /\ \E i \in DOMAIN list : coCall'.result = list[i]
                   /\ Eligible(coCall'.result, now)]_vars
    /\ (coCall.op = "RecordFailure") ~> (IsComplete \/ RetryOutOfBounds)

\* C20 witness: the download is complete, and a peer that failed a chunk is
\* still in the backoff that failure gave it.
C20_Witness ==
    /\ IsComplete
    /\ \E n \in DOMAIN mapPeerStates :
          mapPeerStates[n].nChunksFailed > 0 /\ mapPeerStates[n].nBackoffUntil > now


\* C21: a peer that SelectPeerForNextChunk returns is in the supplied list, is
\* out of backoff, was last sent a request at least
\* MIN_SECONDS_BETWEEN_REQUESTS ago, and no listed peer passing both tests has
\* a strictly older nLastRequestTime; when the guards in front of the loop
\* pass, no peer is returned exactly when no listed peer passes both tests.
C21_SelectsOldestEligiblePeer ==
    [][\A list \in AvailableLists :
          (coCall'.op = "SelectPeerForNextChunk" /\ SelectPeerForNextChunk(list)) =>
              LET passing == {n \in {list[i] : i \in DOMAIN list} : 
                                 /\ PeerStateOf(n).nBackoffUntil <= now
                                 /\ now - PeerStateOf(n).nLastRequestTime
                                       >= MIN_SECONDS_BETWEEN_REQUESTS}
              IN  /\ coCall'.result # NoPeer =>
                        /\ coCall'.result \in passing
                        /\ \A n \in passing :
                              PeerStateOf(n).nLastRequestTime
                                 >= PeerStateOf(coCall'.result).nLastRequestTime
                  /\ ~SelectionRefused(list) =>
                        (coCall'.result = NoPeer <=> passing = {})]_vars

\* C21 witness: SelectPeerForNextChunk returned a peer that was used before,
\* while the other peer is in backoff.
C21_Witness ==
    /\ coCall.op = "SelectPeerForNextChunk"
    /\ coCall.result # NoPeer
    /\ PeerStateOf(coCall.result).nLastRequestTime > 0
    /\ \E n \in DOMAIN mapPeerStates :
          n # coCall.result /\ mapPeerStates[n].nBackoffUntil > now


\* ---------------------------------------------------------------------------
\* One peer that fails and succeeds again and again: RecordFailure and
\* RecordSuccess for the first peer, with the clock.
\* ---------------------------------------------------------------------------

NextBackoff ==
    \/ \E nChunk \in ChunkNumbers :
          RecordFailureUpTo(1, nChunk, MaxBackoffFailures) /\ CoordOnly
    \/ \E nChunk \in ChunkNumbers : RecordSuccess(1, nChunk) /\ CoordOnly
    \/ CoordTick /\ CoordOnly

SpecBackoff == InitCoord /\ [][NextBackoff]_vars

\* C22: RecordFailure leaves the peer's nBackoffUntil at now + 10, 30, 60 or 300
\* when its consecutive-failure count, after the increment, is 1, 2, 3 or at
\* least 4; RecordSuccess leaves the count at 0 and the backoff cleared, so the
\* failure after a success counts 1 and backs off 10 seconds.
C22_BackoffSchedule ==
    /\ [](coCall.op = "RecordFailure" =>
            LET state == mapPeerStates[coCall.node]
            IN  /\ state.nConsecutiveFailures >= 1
                /\ state.nBackoffUntil =
                      now + (CASE state.nConsecutiveFailures = 1 -> 10
                               [] state.nConsecutiveFailures = 2 -> 30
                               [] state.nConsecutiveFailures = 3 -> 60
                               [] OTHER -> 300))
    /\ [][\A nChunk \in ChunkNumbers :
            RecordSuccess(1, nChunk) =>
                /\ mapPeerStates'[1].nConsecutiveFailures = 0
                /\ mapPeerStates'[1].nBackoffUntil = 0]_vars
    /\ [][\A nChunk \in ChunkNumbers :
            (coCall.op = "RecordSuccess"
             /\ RecordFailureUpTo(1, nChunk, MaxBackoffFailures)) =>
                /\ mapPeerStates'[1].nConsecutiveFailures = 1
                /\ mapPeerStates'[1].nBackoffUntil = now + 10]_vars

\* C22 witness: the peer failed four times in a row, then succeeded, and has
\* just failed again.
C22_Witness ==
    /\ coCall.op = "RecordFailure"
    /\ mapPeerStates[coCall.node].nChunksFailed = 5
    /\ mapPeerStates[coCall.node].nConsecutiveFailures = 1


\* the chunks that are in flight and not yet received
MissingInFlight == {e[1] : e \in mapChunkToNode} \ mapChunksReceived

\* C23: with RecordRequest called only for what SelectPeerForNextChunk returned
\* and peers available, the download gets more than one missing chunk in flight
\* at once.
C23_SeveralChunksInFlight == <>(Cardinality(MissingInFlight) > 1)


\* C24: any two requests AllowRequest admitted for the same peer are at least
\* nMinSecondsBetweenRequests apart.
C24_AdmittedRequestsSpaced ==
    \A p \in Peers : \A i, j \in DOMAIN admitted[p] :
        i < j => admitted[p][j].time - admitted[p][i].time >= nMinSecondsBetweenRequests

\* C24 witness: a peer that was admitted before has just been admitted again.
C24_Witness ==
    /\ lastCall.op = "AllowRequest"
    /\ lastCall.result = "ok"
    /\ Len(admitted[lastCall.addr]) >= 2


(***************************************************************************)
(* The handler of a chunk request, over several minutes: it submits the    *)
(* request to AllowRequest and, on admission, loads the chunk, replies,    *)
(* calls RecordServed and then CompleteTransfer, before the next request   *)
(* is handled. Loading and replying take at most HandlerSec seconds. The   *)
(* periodic Cleanup sweep runs at any time.                                *)
(***************************************************************************)
\* the chunk numbers peers ask the server for
ServedChunkNumbers == {0, 1}

\* the seconds the handler takes, at most, from admission to RecordServed
HandlerSec == 1

\* the instants at which calls reach the limiter
ServedTimePoints ==
    {StartTime + o : o \in {0, HandlerSec, nDuplicateChunkWindowSec,
                            nDuplicateChunkWindowSec + HandlerSec, PeerExpirySec + 1}}

\* the request of addr for nChunk was admitted and the chunk was not recorded as served since
AwaitingServed(addr, nChunk) ==
    \E i \in DOMAIN admitted[addr] :
        /\ admitted[addr][i].chunk = nChunk
        /\ <<addr, nChunk>> \in DOMAIN servedAt => servedAt[<<addr, nChunk>>] < admitted[addr][i].time

\* the handler is between AllowRequest and CompleteTransfer
Handling == nActiveTransfers > 0

\* the handler is between AllowRequest and RecordServed
Replying == \E addr \in Peers, nChunk \in ServedChunkNumbers : AwaitingServed(addr, nChunk)

\* the time of the last admitted request
LastAdmission ==
    CHOOSE t \in StartTime..now :
        /\ \E p \in Peers : \E i \in DOMAIN admitted[p] : admitted[p][i].time = t
        /\ \A p \in Peers : \A i \in DOMAIN admitted[p] : admitted[p][i].time <= t

NextServed ==
    \/ \E addr \in Peers, nChunk \in ServedChunkNumbers :
          ~Handling /\ AllowRequest(addr, nChunk) /\ LimiterOnly
    \/ \E addr \in Peers, nChunk \in ServedChunkNumbers :
          Handling /\ AwaitingServed(addr, nChunk) /\ RecordServed(addr, nChunk) /\ LimiterOnly
    \/ Handling /\ ~Replying /\ CompleteTransfer /\ LimiterOnly
    \/ Cleanup /\ LimiterOnly
    \/ /\ Tick(ServedTimePoints)
       /\ Handling => Replying /\ now' - LastAdmission <= HandlerSec
       /\ LimiterOnly

SpecServed == InitFlood /\ [][NextServed]_vars

C26_PlaceholderSkipsVerification ==
    stCall.op = "VerifySnapshotUTXOHash" =>
        ((\E cp \in MatchingCheckpoints : cp.hashUTXOSet = 0)
            => stCall.result /\ ~stCall.calculated)

\* C26 witness: a call that matched a placeholder checkpoint while the UTXO set
\* hashes to a value that is not the checkpoint's.
C26_Witness ==
    /\ stCall.op = "VerifySnapshotUTXOHash"
    /\ \E cp \in MatchingCheckpoints : cp.hashUTXOSet = 0
    /\ stCall.stats.ok
    /\ stCall.stats.hashSerialized # 0
    /\ stCall.result


(***************************************************************************)
(* CSnapshotDownloadState: the request times of chunks. RecordChunkRequest *)
(* and HasRecentRequest are called with any chunk number and any time.     *)
(***************************************************************************)
\* the chunk numbers and the times the two functions are called with
RequestChunks == {0, 1}

\* Consider request "recent" if within last 60 seconds
RecentRequestSec == 60

RequestTimes ==
    {StartTime + o : o \in {0, 1, RecentRequestSec - 1, RecentRequestSec, RecentRequestSec + 1}}

\* a test that also takes a request recorded exactly 60 seconds ago for recent
HasRecentRequestInclusive(requests, nChunk, nNow) ==
    IF nChunk \notin DOMAIN requests THEN FALSE
    ELSE (nNow - requests[nChunk]) <= RecentRequestSec

\* it == mapChunkRequests.end() -> false; return (nNow - it->second) < 60
HasRecentRequest(requests, nChunk, nNow) ==
    IF nChunk \notin DOMAIN requests THEN FALSE
    ELSE (nNow - requests[nChunk]) < RecentRequestSec

\* mapChunkRequests[nChunk] = nTime
RecordChunkRequest(nChunk, nTime) ==
    /\ mapChunkRequests' = [c \in DOMAIN mapChunkRequests \cup {nChunk} |->
                               IF c = nChunk THEN nTime ELSE mapChunkRequests[c]]
    /\ coCall' = [op |-> "RecordChunkRequest", chunk |-> nChunk, time |-> nTime,
                  result |-> TRUE]

CallHasRecentRequest(nChunk, nNow) ==
    /\ coCall' = [op |-> "HasRecentRequest", chunk |-> nChunk, time |-> nNow,
                  result |-> HasRecentRequest(mapChunkRequests, nChunk, nNow)]
    /\ UNCHANGED mapChunkRequests

NextRequests ==
    \/ \E nChunk \in RequestChunks, nTime \in RequestTimes :
          /\ RecordChunkRequest(nChunk, nTime)
          /\ UNCHANGED <<now, mapPeerStates, mapChunkToNode, mapChunksReceived, requestedAt,
                         marks, rlVars, stVars, mfVars, svVars>>
    \/ \E nChunk \in RequestChunks, nNow \in RequestTimes :
          /\ CallHasRecentRequest(nChunk, nNow)
          /\ UNCHANGED <<now, mapPeerStates, mapChunkToNode, mapChunksReceived, requestedAt,
                         marks, rlVars, stVars, mfVars, svVars>>

SpecRequests == InitCoord /\ [][NextRequests]_vars

\* C27: HasRecentRequest(n, now) returns true exactly when a request for chunk n
\* is recorded and the time t last recorded for it has now - t < 60; so it returns
\* false at now - t = 60 and false for a chunk no request was recorded for.
C27_RecentWithinSixtySeconds ==
    coCall.op = "HasRecentRequest" =>
        /\ coCall.result <=> /\ coCall.chunk \in DOMAIN mapChunkRequests
                             /\ coCall.time - mapChunkRequests[coCall.chunk] < 60
        /\ coCall.chunk \notin DOMAIN mapChunkRequests => ~coCall.result
        /\ (/\ coCall.chunk \in DOMAIN mapChunkRequests
            /\ coCall.time - mapChunkRequests[coCall.chunk] = 60) => ~coCall.result

\* C27 witness: the test was called exactly 60 seconds after the recorded request.
C27_Witness ==
    /\ coCall.op = "HasRecentRequest"
    /\ coCall.chunk \in DOMAIN mapChunkRequests
    /\ coCall.time - mapChunkRequests[coCall.chunk] = 60


(***************************************************************************)
(* A ban. The operator has raised the limits through SetLimits so that a   *)
(* peer may reach nBanThreshold requests in a minute; one peer then sends  *)
(* nBanThreshold + 1 requests in the same second, the last of which bans   *)
(* it. After that both peers send requests, chunks are recorded as served, *)
(* transfers complete, Cleanup sweeps, IsBanned is asked and the operator  *)
(* may set the interval between requests back to its default, over the ban *)
(* and past its end.                                                       *)
(***************************************************************************)
BanLimits ==
    [perMinute |-> nBanThreshold, concurrent |-> nBanThreshold + 1, minSeconds |-> 0]

\* the requests of the peer that gets itself banned
BanFloodRequests == nBanThreshold + 1

\* the requests admitted to a peer after the flood, at most
MaxAdmittedAfter == 2

\* the transfers that complete after the flood, at most
MaxCompletedAfter == 2

\* the instants at which calls reach the limiter
BanTimePoints ==
    {StartTime + o : o \in {0, nBanDurationSec - 1, nBanDurationSec, nBanDurationSec + 1}}

\* it == end() -> false; it->second.bIsBanned && nNow < it->second.nBanUntil
IsBanned(addr) ==
    IF addr \notin DOMAIN mapPeerRequests THEN FALSE
    ELSE mapPeerRequests[addr].bIsBanned /\ now < mapPeerRequests[addr].nBanUntil

CallIsBanned(addr) ==
    /\ lastCall' = [op |-> "IsBanned", addr |-> addr, chunk |-> 0, result |-> IsBanned(addr)]
    /\ LimitsUnchanged
    /\ UNCHANGED <<now, mapPeerRequests, nActiveTransfers, admitted, servedAt>>

BanFloodRequest ==
    /\ nSent < BanFloodRequests
    /\ \E nChunk \in Chunks : AllowRequest(FloodPeer, nChunk)
    /\ nSent' = nSent + 1
    /\ UNCHANGED <<coVars, stVars, mfVars, svVars, dsVars>>

\* the requests admitted to addr before the flood was over
AdmittedInFlood(addr) == IF addr = FloodPeer THEN nBanThreshold ELSE 0

InitBan ==
    RLConstructed(BanLimits, 0) /\ CoordConstructed /\ StoreConstructed /\ ManifestConstructed

\* the flood is over
FloodOver == nSent = BanFloodRequests

\* nMaxChunksPerPeerPerMinute = maxChunksPerMin; nMaxConcurrentTransfers = ...
SetLimits(maxChunksPerMin, maxConcurrent, minSecBetween) ==
    /\ nMaxChunksPerPeerPerMinute' = maxChunksPerMin
    /\ nMaxConcurrentTransfers' = maxConcurrent
    /\ nMinSecondsBetweenRequests' = minSecBetween
    /\ lastCall' = [op |-> "SetLimits", addr |-> 0, chunk |-> 0, result |-> "done"]
    /\ UNCHANGED <<now, mapPeerRequests, nActiveTransfers, admitted, servedAt>>

NextBan ==
    \/ BanFloodRequest
    \/ \E addr \in Peers, nChunk \in Chunks :
          /\ FloodOver
          /\ Len(admitted[addr]) < AdmittedInFlood(addr) + MaxAdmittedAfter
          /\ AllowRequest(addr, nChunk)
          /\ LimiterOnly
    \/ \E addr \in Peers, nChunk \in Chunks :
          FloodOver /\ RecordServed(addr, nChunk) /\ LimiterOnly
    \/ /\ FloodOver
       /\ nActiveTransfers > nBanThreshold - MaxCompletedAfter
       /\ CompleteTransfer
       /\ LimiterOnly
    \/ FloodOver /\ Cleanup /\ LimiterOnly
    \/ FloodOver /\ Tick(BanTimePoints) /\ LimiterOnly
    \/ \E addr \in Peers : FloodOver /\ CallIsBanned(addr) /\ LimiterOnly
    \/ /\ FloodOver
       /\ nMinSecondsBetweenRequests = BanLimits.minSeconds
       /\ SetLimits(BanLimits.perMinute, BanLimits.concurrent, DefaultMinSecondsBetweenRequests)
       /\ LimiterOnly

SpecBan == InitBan /\ [][NextBan]_vars

\* the checks of AllowRequest, read on the entry of the peer before the call
BanCheckFails(addr) == InfoOf(addr).bIsBanned /\ now < InfoOf(addr).nBanUntil

CapacityCheckFails == nActiveTransfers >= nMaxConcurrentTransfers

TooFastCheckFails(addr) ==
    /\ InfoOf(addr).nLastRequestTime > 0
    /\ now - InfoOf(addr).nLastRequestTime < nMinSecondsBetweenRequests

DuplicateCheckFails(addr, nChunk) ==
    /\ nChunk \in DOMAIN InfoOf(addr).servedChunks
    /\ now - InfoOf(addr).servedChunks[nChunk] < nDuplicateChunkWindowSec

\* the window the rate check sees: emptied when a ban has just been lifted, and
\* without the requests older than a minute
RateCheckFails(addr) ==
    /\ ~InfoOf(addr).bIsBanned
    /\ Cardinality({i \in DOMAIN InfoOf(addr).requestTimes :
                       now - InfoOf(addr).requestTimes[i] <= RequestWindowSec})
          >= nMaxChunksPerPeerPerMinute

\* what AllowRequest answers when it reports the first check that fails, in the
\* order ban, capacity, too fast, already served, rate limit
FirstFailingCheck(addr, nChunk) ==
    IF BanCheckFails(addr) THEN "banned"
    ELSE IF CapacityCheckFails THEN "capacity"
    ELSE IF TooFastCheckFails(addr) THEN "too_fast"
    ELSE IF DuplicateCheckFails(addr, nChunk) THEN "already_served"
    ELSE IF RateCheckFails(addr) THEN "rate_limit"
    ELSE "ok"

\* C28: every AllowRequest call reports the first check that fails in the order
\* active ban, server at capacity, too fast, already served, per-minute rate limit,
\* and admits the request when none fails.
C28_ChecksInFixedOrder ==
    [][\A addr \in Peers, nChunk \in Chunks :
          (lastCall'.op = "AllowRequest" /\ AllowRequest(addr, nChunk))
              => lastCall'.result = FirstFailingCheck(addr, nChunk)]_vars

\* C28 witness: a banned peer has just been rejected as banned while the server
\* is at capacity.
C28_Witness ==
    /\ lastCall.op = "AllowRequest"
    /\ lastCall.result = "banned"
    /\ nActiveTransfers >= nMaxConcurrentTransfers


\* the end of the ban the flood earned
FloodBanUntil == StartTime + nBanDurationSec

\* what AllowRequest answers to a peer whose ban has just been lifted and whose
\* window has been emptied
FirstFailingCheckAfterBan(addr, nChunk) ==
    IF CapacityCheckFails THEN "capacity"
    ELSE IF TooFastCheckFails(addr) THEN "too_fast"
    ELSE IF DuplicateCheckFails(addr, nChunk) THEN "already_served"
    ELSE IF 0 >= nMaxChunksPerPeerPerMinute THEN "rate_limit"
    ELSE "ok"

\* C29: while now < nBanUntil the banned peer stays banned, every AllowRequest of
\* it is rejected as banned and changes nothing in the limiter; the first
\* AllowRequest of it with now >= nBanUntil clears the ban, empties the request
\* window and is then judged by the remaining checks, so that the window holds
\* that request alone when it is admitted; and IsBanned answers true exactly for
\* the banned peer while now < nBanUntil.
C29_BanHoldsUntilExpiry ==
    /\ [](FloodOver =>
            /\ now < FloodBanUntil =>
                  /\ InfoOf(FloodPeer).bIsBanned
                  /\ InfoOf(FloodPeer).nBanUntil = FloodBanUntil
            /\ lastCall.op = "IsBanned" =>
                  (lastCall.result <=> (lastCall.addr = FloodPeer /\ now < FloodBanUntil)))
    /\ [][\A addr \in Peers, nChunk \in Chunks :
            (/\ lastCall'.op = "AllowRequest"
             /\ FloodOver
             /\ InfoOf(addr).bIsBanned
             /\ AllowRequest(addr, nChunk))
            => IF now < InfoOf(addr).nBanUntil
               THEN /\ lastCall'.result = "banned"
                    /\ UNCHANGED <<mapPeerRequests, nActiveTransfers,
                                   nMaxChunksPerPeerPerMinute, nMaxConcurrentTransfers,
                                   nMinSecondsBetweenRequests>>
               ELSE /\ ~mapPeerRequests'[addr].bIsBanned
                    /\ mapPeerRequests'[addr].nBanUntil = 0
                    /\ lastCall'.result = FirstFailingCheckAfterBan(addr, nChunk)
                    /\ mapPeerRequests'[addr].requestTimes =
                          IF lastCall'.result = "ok" THEN <<now>> ELSE <<>>]_vars

\* C29 witness: the banned peer has just been admitted again, by the request that
\* lifted its ban.
C29_Witness ==
    /\ FloodOver
    /\ lastCall.op = "AllowRequest"
    /\ lastCall.addr = FloodPeer
    /\ lastCall.result = "ok"
    /\ now >= FloodBanUntil
    /\ InfoOf(FloodPeer).requestTimes = <<now>>


\* the windows a call that appends nothing can leave of window: what is left of
\* it when requests are dropped from its front
WithoutOldest(window) == {SubSeq(window, k, Len(window)) : k \in 1..(Len(window) + 1)}

\* C30: a rejected AllowRequest leaves nActiveTransfers, the peer's
\* nLastRequestTime and nTotalRequests and the entries of all other peers as they
\* were and appends nothing to the peer's window; an admitted one appends now to
\* the window, sets nLastRequestTime to now and adds exactly one to nTotalRequests
\* and to nActiveTransfers, and leaves the entries of all other peers as they were.
C30_OnlyAdmissionCounts ==
    [][\A addr \in Peers, nChunk \in Chunks :
          (lastCall'.op = "AllowRequest" /\ AllowRequest(addr, nChunk))
              => LET before == InfoOf(addr)
                     after == mapPeerRequests'[addr]
                 IN  /\ DOMAIN mapPeerRequests' = DOMAIN mapPeerRequests \cup {addr}
                     /\ \A other \in DOMAIN mapPeerRequests \ {addr} :
                           mapPeerRequests'[other] = mapPeerRequests[other]
                     /\ IF lastCall'.result = "ok"
                        THEN /\ nActiveTransfers' = nActiveTransfers + 1
                             /\ after.nLastRequestTime = now
                             /\ after.nTotalRequests = before.nTotalRequests + 1
                             /\ \E kept \in WithoutOldest(before.requestTimes) :
                                   after.requestTimes = Append(kept, now)
                        ELSE /\ nActiveTransfers' = nActiveTransfers
                             /\ after.nLastRequestTime = before.nLastRequestTime
                             /\ after.nTotalRequests = before.nTotalRequests
                             /\ after.requestTimes \in WithoutOldest(before.requestTimes)]_vars

\* C30 witness: a request has just been rejected for the rate limit and has banned
\* the peer, whose entry still shows the time and the count of its last admitted
\* request.
C30_Witness ==
    /\ lastCall.op = "AllowRequest"
    /\ lastCall.result = "rate_limit"
    /\ InfoOf(lastCall.addr).bIsBanned
    /\ InfoOf(lastCall.addr).nTotalRequests = Len(admitted[lastCall.addr])
    /\ InfoOf(lastCall.addr).nLastRequestTime = admitted[lastCall.addr][Len(admitted[lastCall.addr])].time


(***************************************************************************)
(* The Cleanup sweep over a quarter of an hour. One peer gets itself       *)
(* banned as above, both peers send requests until RequestsUntil and none  *)
(* after it, transfers complete, and Cleanup sweeps at any instant.        *)
(***************************************************************************)
\* the last instant at which a peer sends a request
RequestsUntil == StartTime + nBanDurationSec

\* the instants at which calls reach the limiter
ExpiryTimePoints ==
    {StartTime + o : o \in {0, nBanDurationSec, PeerExpirySec, PeerExpirySec + 1,
                            nBanDurationSec + PeerExpirySec + 1}}

NextExpiry ==
    \/ BanFloodRequest
    \/ \E addr \in Peers, nChunk \in Chunks :
          /\ FloodOver
          /\ now <= RequestsUntil
          /\ Len(admitted[addr]) < AdmittedInFlood(addr) + MaxAdmittedAfter
          /\ AllowRequest(addr, nChunk)
          /\ LimiterOnly
    \/ /\ FloodOver
       /\ nActiveTransfers > nBanThreshold - MaxCompletedAfter
       /\ CompleteTransfer
       /\ LimiterOnly
    \/ FloodOver /\ Cleanup /\ LimiterOnly
    \/ FloodOver /\ Tick(ExpiryTimePoints) /\ LimiterOnly

SpecExpiry == InitBan /\ [][NextExpiry]_vars

\* the peer of the entry is banned at nNow: what IsBanned answers for it
BannedAt(info, nNow) == info.bIsBanned /\ nNow < info.nBanUntil

\* C31: a Cleanup sweep removes the entry of a peer exactly when
\* now - nLastRequestTime > 600 and the peer is not banned at that time; the
\* entries it keeps and the active-transfer counter are unchanged.
C31_CleanupRemovesExpiredUnbanned ==
    [][(lastCall'.op = "Cleanup" /\ Cleanup) =>
          /\ \A a \in DOMAIN mapPeerRequests :
                /\ a \notin DOMAIN mapPeerRequests'
                      <=> /\ now - mapPeerRequests[a].nLastRequestTime > 600
                          /\ ~BannedAt(mapPeerRequests[a], now)
                /\ a \in DOMAIN mapPeerRequests' => mapPeerRequests'[a] = mapPeerRequests[a]
          /\ DOMAIN mapPeerRequests' \subseteq DOMAIN mapPeerRequests
          /\ nActiveTransfers' = nActiveTransfers]_vars


(***************************************************************************)
(* SelectPeerForNextChunk against a filling in-flight map. RecordRequest   *)
(* takes any chunk number: requests are recorded for the next needed chunk *)
(* and, one after the other in the first second, for the chunk numbers 1  *)
(* to MAX_CONCURRENT_PEER_REQUESTS, until the map holds that many entries. *)
(***************************************************************************)
\* the chunk numbers in the in-flight map
ChunksInFlight == {e[1] : e \in mapChunkToNode}

\* the next chunk number of the run 1, 2, ... that is not in the in-flight map
NextOfRun ==
    CHOOSE c \in 1..(MAX_CONCURRENT_PEER_REQUESTS + 1) :
        c \notin ChunksInFlight /\ \A d \in 1..(c - 1) : d \in ChunksInFlight

NextSelect ==
    \/ \E list \in AvailableLists : SelectPeerForNextChunk(list) /\ CoordOnly
    \/ \E node \in Nodes :
          /\ Cardinality(mapChunkToNode) < MAX_CONCURRENT_PEER_REQUESTS
          /\ RecordRequestUpTo(node, GetNextChunkToRequest, MaxChunksRequested)
          /\ CoordOnly
    \/ /\ now = StartTime
       /\ NextOfRun <= MAX_CONCURRENT_PEER_REQUESTS
       /\ RecordRequestUpTo(CHOOSE n \in Nodes : \A m \in Nodes : n <= m, NextOfRun,
                            MAX_CONCURRENT_PEER_REQUESTS + MaxChunksRequested)
       /\ CoordOnly
    \/ \E nChunk \in 0..TotalChunks : MarkChunkReceived(nChunk) /\ CoordOnly
    \/ CoordTick /\ CoordOnly

SpecSelect == InitCoord /\ [][NextSelect]_vars

\* C32: SelectPeerForNextChunk returns no peer when every chunk is received, when
\* the next needed chunk is in the in-flight map or when that map holds 12
\* entries; a peer it returns comes with the smallest chunk number not received,
\* which is below the number of chunks.
C32_SelectionRefusals ==
    coCall.op = "SelectPeerForNextChunk" =>
        /\ (\/ \A i \in 0..(TotalChunks - 1) : i \in mapChunksReceived
            \/ \E e \in mapChunkToNode :
                  /\ e[1] \notin mapChunksReceived
                  /\ \A j \in 0..(e[1] - 1) : j \in mapChunksReceived
            \/ Cardinality(mapChunkToNode) >= 12)
              => coCall.result = NoPeer
        /\ coCall.result # NoPeer
              => /\ coCall.chunk < TotalChunks
                 /\ coCall.chunk \notin mapChunksReceived
                 /\ \A j \in 0..(coCall.chunk - 1) : j \in mapChunksReceived

\* C32 witness: the selection has just returned no peer although a peer was
\* eligible, chunks are missing and the next needed one is not in flight: the
\* in-flight map holds 12 entries.
C32_Witness ==
    /\ coCall.op = "SelectPeerForNextChunk"
    /\ coCall.result = NoPeer
    /\ ~IsComplete
    /\ ~InFlight(GetNextChunkToRequest)
    /\ Cardinality(mapChunkToNode) = MAX_CONCURRENT_PEER_REQUESTS
    /\ \E n \in DOMAIN mapPeerStates :
          /\ now >= mapPeerStates[n].nBackoffUntil
          /\ now - mapPeerStates[n].nLastRequestTime >= MIN_SECONDS_BETWEEN_REQUESTS


\* The coordinator with time advancing and GetTimedOutRequests called again and
\* again, whatever else is called in between.
SpecCoordLive ==
    /\ SpecCoord
    /\ WF_vars(CoordTick /\ CoordOnly)
    /\ WF_vars(GetTimedOutRequests /\ CoordOnly)

\* the clock of the model is at its last instant
ClockAtEnd == \A t \in CoordTimePoints : t <= now

\* C33: every chunk in the in-flight map is eventually marked received or taken
\* out of the map, whatever other requests are recorded in the meantime (or the
\* clock of the model ends before the chunk's own request is more than
\* REQUEST_TIMEOUT_SEC old).
C33_NoRequestInFlightForever ==
    \A c \in ChunkNumbers :
        InFlight(c) ~> \/ ~InFlight(c)
                       \/ IsChunkReceived(c)
                       \/ ClockAtEnd /\ now - requestedAt[c] <= REQUEST_TIMEOUT_SEC


(***************************************************************************)
(* CSnapshotDownloadState on its own: MarkChunkReceived is called with any *)
(* chunk numbers, in range or not, in any order and repeatedly.            *)
(***************************************************************************)
\* the calls of MarkChunkReceived in one behaviour, at most
MaxMarks == 4

RecordedMark(nChunk) ==
    /\ Len(marks) < MaxMarks
    /\ MarkChunkReceived(nChunk)
    /\ marks' = Append(marks, nChunk)
    /\ UNCHANGED <<mapChunkRequests, rlVars, stVars, mfVars, svVars>>

NextMarks == \E nChunk \in 0..(TotalChunks + 1) : RecordedMark(nChunk)

SpecMarks == InitCoord /\ [][NextMarks]_vars

\* the in-range chunk numbers MarkChunkReceived was called with
MarkedInRange == {marks[i] : i \in DOMAIN marks} \cap 0..(TotalChunks - 1)

\* C34: IsChunkReceived, GetReceivedCount, GetNextChunkToRequest and IsComplete
\* are functions of the set of in-range chunk numbers MarkChunkReceived was
\* called with, whatever the order and the repetitions of the calls; IsComplete
\* is false until every number 0..N-1 is in the set.
C34_MarksCommute ==
    /\ \A c \in 0..(TotalChunks + 1) : IsChunkReceived(c) <=> c \in MarkedInRange
    /\ GetReceivedCount = Cardinality(MarkedInRange)
    /\ GetNextChunkToRequest =
          IF MarkedInRange = 0..(TotalChunks - 1) THEN TotalChunks
          ELSE CHOOSE c \in 0..(TotalChunks - 1) :
                  c \notin MarkedInRange /\ \A d \in 0..(c - 1) : d \in MarkedInRange
    /\ IsComplete <=> MarkedInRange = 0..(TotalChunks - 1)

\* C34 witness: the download is complete after calls that came in descending
\* order, with a repeated chunk and a chunk number out of range among them.
C34_Witness ==
    /\ IsComplete
    /\ Len(marks) = MaxMarks
    /\ marks[1] > marks[MaxMarks]
    /\ \E i, j \in DOMAIN marks : i # j /\ marks[i] = marks[j]
    /\ \E i \in DOMAIN marks : marks[i] >= TotalChunks


RECURSIVE SumOfSizes(_, _)
\* the sum of nSize over the first n entries of a chunk list
SumOfSizes(vChunks, n) ==
    IF n = 0 THEN 0 ELSE SumOfSizes(vChunks, n - 1) + vChunks[n - 1].nSize

\* C35: the manifest a store holds after a successful Initialize (LoadManifest of
\* manifest.dat, else the hardcoded manifest) has a non-empty chunk list numbered
\* 0..N-1 without gaps, a positive height, and chunk sizes whose sum is
\* nTotalSize.
C35_AcceptedManifestWellFormed ==
    (mfCall.op = "InitSnapshotStore" /\ mfCall.result) =>
        LET m == psnapshotstore.manifest
            N == Cardinality(DOMAIN m.vChunks)
        IN  /\ N > 0
            /\ DOMAIN m.vChunks = 0..(N - 1)
            /\ \A i \in DOMAIN m.vChunks : m.vChunks[i].nChunkNumber = i
            /\ m.nBlockHeight > 0
            /\ SumOfSizes(m.vChunks, N) = m.nTotalSize


\* what a report of peer node about chunk nChunk may change: the state of node,
\* and the in-flight entry of nChunk when it is assigned to node
ReportTouchesOnlyReporter(node, nChunk) ==
    /\ \A q \in DOMAIN mapPeerStates \ {node} :
          q \in DOMAIN mapPeerStates' /\ mapPeerStates'[q] = mapPeerStates[q]
    /\ DOMAIN mapPeerStates' \subseteq DOMAIN mapPeerStates \cup {node}
    /\ mapChunkToNode' = mapChunkToNode \ {<<nChunk, node>>}

\* C36: RecordSuccess(P, c) and RecordFailure(P, c) change only the counters of
\* peer P and remove the in-flight entry of chunk c only when it is assigned to
\* P; an entry that assigns c to another peer Q stays, and the state of Q is
\* unchanged.
C36_ReportTouchesOnlyReporter ==
    [][\A node \in Nodes, nChunk \in ChunkNumbers :
          /\ (coCall'.op = "RecordSuccess" /\ RecordSuccess(node, nChunk))
                => ReportTouchesOnlyReporter(node, nChunk)
          /\ (coCall'.op = "RecordFailure" /\ RecordFailure(node, nChunk))
                => ReportTouchesOnlyReporter(node, nChunk)]_vars


\* C37: with the limits as set at startup, the request window of every peer
\* holds at most nMaxChunksPerPeerPerMinute timestamps in every reachable state,
\* whatever AllowRequest, RecordServed, CompleteTransfer and Cleanup calls were
\* made and whenever.
C37_WindowBounded ==
    \A p \in DOMAIN mapPeerRequests :
        Len(mapPeerRequests[p].requestTimes) <= nMaxChunksPerPeerPerMinute

\* C37 witness: a peer whose window was full is admitted again once its oldest
\* timestamp has left the window, and the window is full again.
C37_Witness ==
    /\ lastCall.op = "AllowRequest"
    /\ lastCall.result = "ok"
    /\ Len(admitted[lastCall.addr]) > nMaxChunksPerPeerPerMinute
    /\ Len(mapPeerRequests[lastCall.addr].requestTimes) = nMaxChunksPerPeerPerMinute


\* C38: VerifySnapshotUTXOHash succeeds only if the pair (height, block hash) is
\* a configured snapshot checkpoint or no checkpoint is configured at all; with
\* checkpoints configured, a block hash that differs from the checkpoint's block
\* hash at that height never succeeds.
C38_SuccessNeedsCheckpoint ==
    (stCall.op = "VerifySnapshotUTXOHash" /\ stCall.result) =>
        \/ stCall.checkpoints = {}
        \/ MatchingCheckpoints # {}


(***************************************************************************)
(* SpecExpiry with a clock that keeps moving and a Cleanup sweep that      *)
(* keeps being run (the sweep is periodic).                                *)
(***************************************************************************)
SpecExpiryLive ==
    /\ SpecExpiry
    /\ WF_vars(FloodOver /\ Tick(ExpiryTimePoints) /\ LimiterOnly)
    /\ WF_vars(FloodOver /\ Cleanup /\ LimiterOnly)

\* C39: the entry of every peer that stops sending requests, a peer that was
\* banned included, is removed by some later Cleanup sweep, once its ban has
\* expired and more than 600 seconds have passed since its last admitted
\* request.
C39_EntriesEventuallyRemoved ==
    \A a \in Peers :
        (FloodOver /\ a \in DOMAIN mapPeerRequests) ~> (a \notin DOMAIN mapPeerRequests)

====
